---- MODULE Spec2Model ----
(***************************************************************************)
(* Model of the task-scheduling and worker-lifecycle subsystem of CPAS3:   *)
(*   modules/agent/task_queue.py   Task, TaskQueue                         *)
(*   modules/agent/base_agent.py   BaseAgent (start / stop / _run_wrapper) *)
(*   modules/agent/task_agent.py   TaskAgent._run                          *)
(*   modules/agent/agent_instance.py AgentInstance (start / stop / cleanup)*)
(* Task objects are numbered in the order of their construction; the       *)
(* priority queue is the heap array of queue.PriorityQueue (heapq).        *)
(***************************************************************************)
EXTENDS Integers, Sequences, FiniteSets, TLC

None == "None"

\* ---------------------------------------------------------------- bounds
MaxTasks == 2
MaxStatusTasks == 2
MaxFifoTasks == 4
MaxAgentTasks == 1
MaxLifeTasks == 1
MaxWorkTasks == 2
MaxHistory == 2
MaxFaultTasks == 1
MaxCancelTasks == 2
MaxStarveTasks == 2

\* ------------------------------------------------------------ input sets
Workers == {"w1", "w2"}
Producers == {"p1", "p2"}
Threads == {"th1", "th2"}
TaskIds == {"t1", "t2", "t3", "t4"}
QueueIds == {"t1", "t2"}
Priorities == {1, 5}
Results == {"ok"}
Errors == {"boom"}
Callers == {"c1", "c2"}
SelfId == "w1"
Setters == Threads \cup Callers

PENDING == "PENDING"
ASSIGNED == "ASSIGNED"
IN_PROGRESS == "IN_PROGRESS"
COMPLETED == "COMPLETED"
FAILED == "FAILED"
CANCELLED == "CANCELLED"

VARIABLES
  tasks,      \* Task objects, in order of construction (a sequence of records)
  all_tasks,  \* TaskQueue._all_tasks: task_id -> Task object (0 = no entry)
  queue,      \* TaskQueue._queue: the heap array of (priority, task) tuples
  addPc,      \* position of each producer inside add_task
  addTask,    \* the Task object a producer is adding
  getPc,      \* position of each consumer thread inside get_task
  getAgent,   \* agent_id argument of the get_task call in progress
  getItem,    \* the (priority, task) tuple a get_task call has popped
  popStatus,  \* history: the status that task had when the call popped it
  getRet,     \* the value the thread's last get_task call returned (0 = None)
  rets,       \* history: the (agent, task) pairs get_task has returned
  enq,        \* history: Task objects in the order add_task put them
  requeued,   \* history: Task objects get_task has put back on the queue
  signals,    \* history: per Task object, the notifications emitted for it, in
              \* order, each kept at its first emission
  status,     \* BaseAgent._status of the one agent (id "w1")
  stop_event, \* BaseAgent._stop_event
  thread,     \* BaseAgent._thread: the Thread object referenced, or None
  current_task_id, \* BaseAgent._current_task_id
  thrPc,      \* position of each Thread object in _run_wrapper / _run
  thrTask,    \* local current_task of the loop running on the thread
  thrFinal,   \* local final_status of _run_wrapper
  callPc,     \* position of each caller thread inside start() / stop()
  callWait,   \* the wait argument of the stop() call in progress
  callCleanup, \* TRUE while the stop() in progress was called by cleanup()
  store,      \* AgentStore: the status field of the agent's state file, or None
  disk_fails, \* TRUE while writing the state file raises (caught and logged)
  manifest,   \* AgentStore: TRUE when the agent is listed in the manifest
  registered, \* AgentManager.agents: TRUE when the agent is in the registry
  created,    \* TRUE once the AgentInstance object has been constructed
  mgrPc,      \* position of the caller thread inside an AgentManager method
  histories,  \* HistoryManager.histories[agent_id]: the in-memory deque
  history_file, \* AgentStore: the lines of the agent's history file
  agent_manager, \* BaseAgent._agent_manager: a manager with a TaskQueue, or None
  setPc,      \* position of each thread inside set_status / save_state
  setArg,     \* the new_status argument of the set_status call in progress
  state_data  \* save_state's local state_data: the status name it has read

qvars == <<tasks, all_tasks, queue, addPc, addTask, getPc, getAgent, getItem, popStatus, getRet, rets, enq, requeued, signals>>

hvars == <<histories, history_file>>

fvars == <<status, stop_event, thread, current_task_id, thrPc, thrTask, thrFinal, callPc, callWait, callCleanup, store,
           agent_manager, setPc, setArg, state_data>>

mvars == <<disk_fails, manifest, registered, created, mgrPc, histories, history_file, agent_manager, setPc, setArg, state_data>>

avars == <<status, stop_event, thread, current_task_id, thrPc, thrTask, thrFinal, callPc, callWait, callCleanup,
           store, disk_fails, manifest, registered, created, mgrPc, histories, history_file, agent_manager, setPc, setArg, state_data>>

vars == <<tasks, all_tasks, queue, addPc, addTask, getPc, getAgent, getItem, popStatus, getRet, rets, enq, requeued, signals,
          status, stop_event, thread, current_task_id, thrPc, thrTask, thrFinal, callPc, callWait, callCleanup,
          store, disk_fails, manifest, registered, created, mgrPc, histories, history_file, agent_manager, setPc, setArg, state_data>>

\* ------------------------------------------------------------------ Task
\* Task.__init__
NewTask(id, prio, target) ==
  [task_id |-> id, priority |-> prio, target_agent_id |-> target,
   status |-> PENDING, assigned_agent_id |-> None,
   result |-> None, error_message |-> None]

\* Task.update_status
update_status(t, new_status, agent_id, result, error) ==
  IF t.status # new_status
  THEN [t EXCEPT !.status = new_status,
                 !.assigned_agent_id = IF agent_id # None THEN agent_id ELSE @,
                 !.result = IF result # None THEN result ELSE @,
                 !.error_message = IF error # None THEN error ELSE @]
  ELSE t

\* Task.__lt__ on two Task objects (indices into tasks)
TaskLt(a, b) == tasks[a].priority < tasks[b].priority

\* Python's tuple comparison of two (priority, task) items: the first
\* position where the items differ decides; Task has no __eq__, so two
\* tasks are equal only when they are the same object.
ItemLt(x, y) ==
  IF x[1] # y[1] THEN x[1] < y[1]
  ELSE IF x[2] = y[2] THEN FALSE
  ELSE TaskLt(x[2], y[2])

\* ------------------------------------------------- heapq (0-based positions)
RECURSIVE siftdown(_, _, _, _)
siftdown(heap, startpos, pos, newitem) ==
  IF pos > startpos
  THEN LET parentpos == (pos - 1) \div 2
           parent == heap[parentpos + 1]
       IN IF ItemLt(newitem, parent)
          THEN siftdown([heap EXCEPT ![pos + 1] = parent], startpos, parentpos, newitem)
          ELSE [heap EXCEPT ![pos + 1] = newitem]
  ELSE [heap EXCEPT ![pos + 1] = newitem]

\* the child heapq._siftup moves up: the right one unless the left is smaller
SmallerChild(heap, childpos) ==
  LET rightpos == childpos + 1
  IN IF rightpos < Len(heap) /\ ~ItemLt(heap[childpos + 1], heap[rightpos + 1])
     THEN rightpos ELSE childpos

RECURSIVE siftup_loop(_, _, _, _)
siftup_loop(heap, startpos, pos, newitem) ==
  LET childpos == 2 * pos + 1
  IN IF childpos < Len(heap)
     THEN LET c == SmallerChild(heap, childpos)
          IN siftup_loop([heap EXCEPT ![pos + 1] = heap[c + 1]], startpos, c, newitem)
     ELSE siftdown([heap EXCEPT ![pos + 1] = newitem], startpos, pos, newitem)

siftup(heap, pos) == siftup_loop(heap, pos, pos, heap[pos + 1])

heappush(heap, item) == siftdown(Append(heap, item), 0, Len(heap), item)

\* a pop that takes the most recently stored array slot instead of the root
heappop_last(heap) ==
  <<heap[Len(heap)], SubSeq(heap, 1, Len(heap) - 1)>>

\* heappop returns <<item, heap'>>
heappop(heap) ==
  LET lastelt == heap[Len(heap)]
      rest == SubSeq(heap, 1, Len(heap) - 1)
  IN IF rest = <<>> THEN <<lastelt, rest>>
     ELSE <<rest[1], siftup([rest EXCEPT ![1] = lastelt], 0)>>

\* signal_emitter.<name>.emit(...) for Task object o (task_queue.py 76, 130)
emit(name, o) ==
  IF \E i \in 1..Len(signals[o]) : signals[o][i] = name
  THEN signals
  ELSE [signals EXCEPT ![o] = Append(@, name)]

\* Task.update_status, lines 62 and 73-78: task_status_updated is emitted when
\* the status changes
update_status_emit(o, new_status) ==
  IF tasks[o].status # new_status THEN emit("task_status_updated", o) ELSE signals

\* ------------------------------------------------------------- TaskQueue
QInit ==
  /\ tasks = <<>>
  /\ all_tasks = [i \in TaskIds |-> 0]
  /\ queue = <<>>
  /\ addPc = [p \in Producers |-> "idle"]
  /\ addTask = [p \in Producers |-> 0]
  /\ getPc = [th \in Threads |-> "idle"]
  /\ getAgent = [th \in Threads |-> None]
  /\ getItem = [th \in Threads |-> <<0, 0>>]
  /\ popStatus = [th \in Threads |-> None]
  /\ getRet = [th \in Threads |-> 0]
  /\ rets = <<>>
  /\ enq = <<>>
  /\ requeued = {}
  /\ signals = <<>>

\* add_task without the duplicate-id check of line 120
AddTaskLocked_NoDupCheck(p, id, prio, target, bound) ==
  /\ addPc[p] = "idle"
  /\ Len(tasks) < bound
  /\ LET o == Len(tasks) + 1
     IN /\ tasks' = Append(tasks, NewTask(id, prio, target))
        /\ signals' = Append(signals, <<>>)
        /\ all_tasks' = [all_tasks EXCEPT ![id] = o]
        /\ addPc' = [addPc EXCEPT ![p] = "put"]
        /\ addTask' = [addTask EXCEPT ![p] = o]
  /\ UNCHANGED <<queue, getPc, getAgent, getItem, popStatus, getRet, rets, enq, requeued>>

\* add_task, lines 119-123: the duplicate check and the registration, under
\* the lock.  The Task object is constructed by the caller just before.
AddTaskLocked(p, id, prio, target, bound) ==
  /\ addPc[p] = "idle"
  /\ Len(tasks) < bound
  /\ LET o == Len(tasks) + 1
     IN /\ tasks' = Append(tasks, NewTask(id, prio, target))
        /\ signals' = Append(signals, <<>>)
        /\ IF all_tasks[id] # 0
           THEN UNCHANGED <<all_tasks, addPc, addTask>>
           ELSE /\ all_tasks' = [all_tasks EXCEPT ![id] = o]
                /\ addPc' = [addPc EXCEPT ![p] = "put"]
                /\ addTask' = [addTask EXCEPT ![p] = o]
  /\ UNCHANGED <<queue, getPc, getAgent, getItem, popStatus, getRet, rets, enq, requeued>>

\* add_task, line 126: the put on the PriorityQueue, after the lock is released
AddTaskPut(p) ==
  /\ addPc[p] = "put"
  /\ queue' = heappush(queue, <<tasks[addTask[p]].priority, addTask[p]>>)
  /\ enq' = Append(enq, addTask[p])
  /\ addPc' = [addPc EXCEPT ![p] = "emit"]
  /\ UNCHANGED <<tasks, all_tasks, addTask, getPc, getAgent, getItem, popStatus, getRet, rets, requeued, signals>>

\* add_task, lines 127-132: after the put, task_created is emitted and the
\* call returns
AddTaskEmit(p) ==
  /\ addPc[p] = "emit"
  /\ signals' = emit("task_created", addTask[p])
  /\ addPc' = [addPc EXCEPT ![p] = "idle"]
  /\ addTask' = [addTask EXCEPT ![p] = 0]
  /\ UNCHANGED <<tasks, all_tasks, queue, getPc, getAgent, getItem, popStatus, getRet, rets, enq, requeued>>

\* get_task, line 152 on an empty queue: the get times out, queue.Empty is
\* caught at line 176 and None is returned
GetTaskEmpty(th, agent) ==
  /\ getPc[th] = "idle"
  /\ queue = <<>>
  /\ getRet' = [getRet EXCEPT ![th] = 0]
  /\ UNCHANGED <<tasks, all_tasks, queue, addPc, addTask, getPc, getAgent, getItem, popStatus, rets, enq, requeued, signals>>

\* get_task, line 152: the highest-priority item is popped
GetTaskPop(th, agent) ==
  /\ getPc[th] = "idle"
  /\ queue # <<>>
  /\ LET r == heappop(queue)
     IN /\ getItem' = [getItem EXCEPT ![th] = r[1]]
        /\ popStatus' = [popStatus EXCEPT ![th] = tasks[r[1][2]].status]
        /\ queue' = r[2]
  /\ getAgent' = [getAgent EXCEPT ![th] = agent]
  /\ getPc' = [getPc EXCEPT ![th] = "locked"]
  /\ UNCHANGED <<tasks, all_tasks, addPc, addTask, getRet, rets, enq, requeued, signals>>

\* get_task putting the item back on both branches of line 162
GetTaskLocked_PutBack(th) ==
  /\ getPc[th] = "locked"
  /\ LET item == getItem[th]
         o == item[2]
         t == tasks[o]
         agent_id == getAgent[th]
     IN IF all_tasks[t.task_id] = 0 \/ tasks[all_tasks[t.task_id]].status = CANCELLED
        THEN /\ getRet' = [getRet EXCEPT ![th] = 0]
             /\ UNCHANGED <<tasks, queue, rets, requeued, signals>>
        ELSE IF t.target_agent_id # None /\ t.target_agent_id # agent_id
        THEN /\ queue' = heappush(queue, <<item[1], o>>)
             /\ getRet' = [getRet EXCEPT ![th] = 0]
             /\ requeued' = requeued \cup {o}
             /\ UNCHANGED <<tasks, rets, signals>>
        ELSE /\ tasks' = [tasks EXCEPT ![o] = update_status(t, ASSIGNED, agent_id, None, None)]
             /\ signals' = update_status_emit(o, ASSIGNED)
             /\ getRet' = [getRet EXCEPT ![th] = o]
             /\ rets' = Append(rets, [agent |-> agent_id, task |-> o])
             /\ queue' = heappush(queue, <<item[1], o>>)
             /\ UNCHANGED requeued
  /\ getPc' = [getPc EXCEPT ![th] = "idle"]
  /\ getItem' = [getItem EXCEPT ![th] = <<0, 0>>]
  /\ popStatus' = [popStatus EXCEPT ![th] = None]
  /\ getAgent' = [getAgent EXCEPT ![th] = None]
  /\ UNCHANGED <<all_tasks, addPc, addTask, enq>>

\* get_task without the target check of line 162
GetTaskLocked_AnyTarget(th) ==
  /\ getPc[th] = "locked"
  /\ LET item == getItem[th]
         o == item[2]
         t == tasks[o]
         agent_id == getAgent[th]
     IN IF all_tasks[t.task_id] = 0 \/ tasks[all_tasks[t.task_id]].status = CANCELLED
        THEN /\ getRet' = [getRet EXCEPT ![th] = 0]
             /\ UNCHANGED <<tasks, queue, rets, requeued, signals>>
        ELSE /\ tasks' = [tasks EXCEPT ![o] = update_status(t, ASSIGNED, agent_id, None, None)]
             /\ signals' = update_status_emit(o, ASSIGNED)
             /\ getRet' = [getRet EXCEPT ![th] = o]
             /\ rets' = Append(rets, [agent |-> agent_id, task |-> o])
             /\ UNCHANGED <<queue, requeued>>
  /\ getPc' = [getPc EXCEPT ![th] = "idle"]
  /\ getItem' = [getItem EXCEPT ![th] = <<0, 0>>]
  /\ popStatus' = [popStatus EXCEPT ![th] = None]
  /\ getAgent' = [getAgent EXCEPT ![th] = None]
  /\ UNCHANGED <<all_tasks, addPc, addTask, enq>>

\* get_task dropping a task targeted at another agent instead of putting it
\* back at line 165
GetTaskLocked_DropMismatch(th) ==
  /\ getPc[th] = "locked"
  /\ LET item == getItem[th]
         o == item[2]
         t == tasks[o]
         agent_id == getAgent[th]
     IN IF all_tasks[t.task_id] = 0 \/ tasks[all_tasks[t.task_id]].status = CANCELLED
        THEN /\ getRet' = [getRet EXCEPT ![th] = 0]
             /\ UNCHANGED <<tasks, queue, rets, requeued, signals>>
        ELSE IF t.target_agent_id # None /\ t.target_agent_id # agent_id
        THEN /\ getRet' = [getRet EXCEPT ![th] = 0]
             /\ requeued' = requeued \cup {o}
             /\ UNCHANGED <<tasks, queue, rets, signals>>
        ELSE /\ tasks' = [tasks EXCEPT ![o] = update_status(t, ASSIGNED, agent_id, None, None)]
             /\ signals' = update_status_emit(o, ASSIGNED)
             /\ getRet' = [getRet EXCEPT ![th] = o]
             /\ rets' = Append(rets, [agent |-> agent_id, task |-> o])
             /\ UNCHANGED <<queue, requeued>>
  /\ getPc' = [getPc EXCEPT ![th] = "idle"]
  /\ getItem' = [getItem EXCEPT ![th] = <<0, 0>>]
  /\ popStatus' = [popStatus EXCEPT ![th] = None]
  /\ getAgent' = [getAgent EXCEPT ![th] = None]
  /\ UNCHANGED <<all_tasks, addPc, addTask, enq>>

\* get_task, lines 154-174: under the lock, discard, re-queue or assign
GetTaskLocked(th) ==
  /\ getPc[th] = "locked"
  /\ LET item == getItem[th]
         o == item[2]
         t == tasks[o]
         agent_id == getAgent[th]
     IN IF all_tasks[t.task_id] = 0 \/ tasks[all_tasks[t.task_id]].status = CANCELLED
        THEN /\ getRet' = [getRet EXCEPT ![th] = 0]
             /\ UNCHANGED <<tasks, queue, rets, requeued, signals>>
        ELSE IF t.target_agent_id # None /\ t.target_agent_id # agent_id
        THEN /\ queue' = heappush(queue, <<item[1], o>>)
             /\ getRet' = [getRet EXCEPT ![th] = 0]
             /\ requeued' = requeued \cup {o}
             /\ UNCHANGED <<tasks, rets, signals>>
        ELSE /\ tasks' = [tasks EXCEPT ![o] = update_status(t, ASSIGNED, agent_id, None, None)]
             /\ signals' = update_status_emit(o, ASSIGNED)
             /\ getRet' = [getRet EXCEPT ![th] = o]
             /\ rets' = Append(rets, [agent |-> agent_id, task |-> o])
             /\ UNCHANGED <<queue, requeued>>
  /\ getPc' = [getPc EXCEPT ![th] = "idle"]
  /\ getItem' = [getItem EXCEPT ![th] = <<0, 0>>]
  /\ popStatus' = [popStatus EXCEPT ![th] = None]
  /\ getAgent' = [getAgent EXCEPT ![th] = None]
  /\ UNCHANGED <<all_tasks, addPc, addTask, enq>>

\* variant: the status is set but the result is not stored
complete_task_NoResult(task_id, result) ==
  /\ IF all_tasks[task_id] # 0
     THEN tasks' = [tasks EXCEPT ![all_tasks[task_id]] =
                       update_status(@, COMPLETED, None, None, None)]
     ELSE UNCHANGED tasks
  /\ signals' = IF all_tasks[task_id] # 0
                THEN update_status_emit(all_tasks[task_id], COMPLETED)
                ELSE signals
  /\ UNCHANGED <<all_tasks, queue, addPc, addTask, getPc, getAgent, getItem, popStatus, getRet, rets, enq, requeued>>

\* complete_task, lines 183-199 (one critical section)
complete_task(task_id, result) ==
  /\ IF all_tasks[task_id] # 0
     THEN tasks' = [tasks EXCEPT ![all_tasks[task_id]] =
                       update_status(@, COMPLETED, None, result, None)]
     ELSE UNCHANGED tasks
  /\ signals' = IF all_tasks[task_id] # 0
                THEN update_status_emit(all_tasks[task_id], COMPLETED)
                ELSE signals
  /\ UNCHANGED <<all_tasks, queue, addPc, addTask, getPc, getAgent, getItem, popStatus, getRet, rets, enq, requeued>>

\* fail_task, lines 201-212 (one critical section)
fail_task(task_id, error_message) ==
  /\ IF all_tasks[task_id] # 0
     THEN tasks' = [tasks EXCEPT ![all_tasks[task_id]] =
                       update_status(@, FAILED, None, None, error_message)]
     ELSE UNCHANGED tasks
  /\ signals' = IF all_tasks[task_id] # 0
                THEN update_status_emit(all_tasks[task_id], FAILED)
                ELSE signals
  /\ UNCHANGED <<all_tasks, queue, addPc, addTask, getPc, getAgent, getItem, popStatus, getRet, rets, enq, requeued>>

\* variant: a PENDING task is marked IN_PROGRESS too
update_task_progress_FromPending(task_id, agent_id) ==
  /\ IF all_tasks[task_id] # 0 /\ tasks[all_tasks[task_id]].status \in {PENDING, ASSIGNED}
     THEN tasks' = [tasks EXCEPT ![all_tasks[task_id]] =
                       update_status(@, IN_PROGRESS,
                                     IF agent_id # None THEN agent_id ELSE @.assigned_agent_id,
                                     None, None)]
     ELSE UNCHANGED tasks
  /\ signals' = IF all_tasks[task_id] # 0 /\ tasks[all_tasks[task_id]].status \in {PENDING, ASSIGNED}
                THEN update_status_emit(all_tasks[task_id], IN_PROGRESS)
                ELSE signals
  /\ UNCHANGED <<all_tasks, queue, addPc, addTask, getPc, getAgent, getItem, popStatus, getRet, rets, enq, requeued>>

\* update_task_progress, lines 214-227 (one critical section)
update_task_progress(task_id, agent_id) ==
  /\ IF all_tasks[task_id] # 0 /\ tasks[all_tasks[task_id]].status = ASSIGNED
     THEN tasks' = [tasks EXCEPT ![all_tasks[task_id]] =
                       update_status(@, IN_PROGRESS,
                                     IF agent_id # None THEN agent_id ELSE @.assigned_agent_id,
                                     None, None)]
     ELSE UNCHANGED tasks
  /\ signals' = IF all_tasks[task_id] # 0 /\ tasks[all_tasks[task_id]].status = ASSIGNED
                THEN update_status_emit(all_tasks[task_id], IN_PROGRESS)
                ELSE signals
  /\ UNCHANGED <<all_tasks, queue, addPc, addTask, getPc, getAgent, getItem, popStatus, getRet, rets, enq, requeued>>

\* ------------------------------------------- BaseAgent / TaskAgent (agent "w1")
IDLE == "IDLE"
STARTING == "STARTING"
RUNNING == "RUNNING"
THINKING == "THINKING"
STOPPING == "STOPPING"
STOPPED == "STOPPED"
AGENT_FAILED == "AGENT_FAILED"
ERROR == "ERROR"
UNKNOWN == "UNKNOWN"
INITIALIZING == "INITIALIZING"

\* BaseAgent.__init__ with the initial status an agent is created or loaded
\* with; no Thread object exists yet
AFields ==
  /\ stop_event = FALSE
  /\ thread = None
  /\ current_task_id = None
  /\ thrPc = [th \in Threads |-> "unborn"]
  /\ thrTask = [th \in Threads |-> 0]
  /\ thrFinal = [th \in Threads |-> None]
  /\ callPc = [c \in Callers |-> "idle"]
  /\ callWait = [c \in Callers |-> FALSE]
  /\ callCleanup = [c \in Callers |-> FALSE]
  /\ histories = <<>>
  /\ history_file = <<>>
  /\ setPc = [x \in Setters |-> "idle"]
  /\ setArg = [x \in Setters |-> None]
  /\ state_data = [x \in Setters |-> None]

\* one agent, constructed with status IDLE and registered; nothing saved yet
AInit ==
  /\ AFields
  /\ agent_manager = "manager"
  /\ status = IDLE
  /\ store = None
  /\ disk_fails = FALSE
  /\ manifest = TRUE
  /\ registered = TRUE
  /\ created = TRUE
  /\ mgrPc = "idle"

Init == QInit /\ AInit

\* threading.Thread.is_alive: started and run() not yet returned
is_alive(th) == thrPc[th] \notin {"unborn", "new", "dead"}

\* get_serializable_state: the status is stored by its enum name
StatusName(s) == IF s = AGENT_FAILED THEN "FAILED" ELSE s

\* BaseAgent.save_state: the state file is rewritten; a failure is caught,
\* and without a manager nothing is written
save_state(s) ==
  store' = IF disk_fails \/ agent_manager = None THEN store ELSE StatusName(s)

\* variant: the status is assigned only when the save has succeeded
set_status_SaveFirst(new_status) ==
  IF status # new_status /\ ~disk_fails
  THEN status' = new_status /\ save_state(new_status)
  ELSE UNCHANGED <<status, store>>

\* BaseAgent.set_status: the status assignment, then save_state
set_status(new_status) ==
  IF status # new_status
  THEN status' = new_status /\ save_state(new_status)
  ELSE UNCHANGED <<status, store>>

InStart(c) == callPc[c] \in {"s177", "s185", "s186", "s187", "s189"}

\* start(), line 174: the thread check.  A Thread object is left for every
\* start() call that is past this check.
StartCheckThread(c) ==
  /\ callPc[c] = "idle"
  /\ Cardinality({th \in Threads : thrPc[th] = "unborn"})
       > Cardinality({d \in Callers : InStart(d) /\ callPc[d] # "s189"})
  /\ IF thread # None /\ is_alive(thread)
     THEN UNCHANGED callPc
     ELSE callPc' = [callPc EXCEPT ![c] = "s177"]
  /\ UNCHANGED <<status, store, stop_event, thread, current_task_id, thrPc, thrTask, thrFinal, callWait, callCleanup>>
  /\ UNCHANGED qvars

\* start(), lines 177-182: the status checks
StartCheckStatus(c) ==
  /\ callPc[c] = "s177"
  /\ IF status \in {RUNNING, STARTING, THINKING} \/ status = ERROR
     THEN callPc' = [callPc EXCEPT ![c] = "idle"]
     ELSE callPc' = [callPc EXCEPT ![c] = "s185"]
  /\ UNCHANGED <<status, store, stop_event, thread, current_task_id, thrPc, thrTask, thrFinal, callWait, callCleanup>>
  /\ UNCHANGED qvars

\* start(), line 185
StartSetStatus(c) ==
  /\ callPc[c] = "s185"
  /\ set_status(STARTING)
  /\ callPc' = [callPc EXCEPT ![c] = "s186"]
  /\ UNCHANGED <<stop_event, thread, current_task_id, thrPc, thrTask, thrFinal, callWait, callCleanup>>
  /\ UNCHANGED qvars

\* start(), line 186
StartClearEvent(c) ==
  /\ callPc[c] = "s186"
  /\ stop_event' = FALSE
  /\ callPc' = [callPc EXCEPT ![c] = "s187"]
  /\ UNCHANGED <<status, store, thread, current_task_id, thrPc, thrTask, thrFinal, callWait, callCleanup>>
  /\ UNCHANGED qvars

\* Thread objects are taken in a fixed order
ThreadNo(th) == IF th = "th1" THEN 1 ELSE 2

\* start(), lines 187-188: a new Thread object is stored in self._thread
StartCreateThread(c) ==
  /\ callPc[c] = "s187"
  /\ \E th \in Threads :
       /\ thrPc[th] = "unborn"
       /\ \A u \in Threads : thrPc[u] = "unborn" => ThreadNo(th) <= ThreadNo(u)
       /\ thrPc' = [thrPc EXCEPT ![th] = "new"]
       /\ thread' = th
  /\ callPc' = [callPc EXCEPT ![c] = "s189"]
  /\ UNCHANGED <<status, store, stop_event, current_task_id, thrTask, thrFinal, callWait, callCleanup>>
  /\ UNCHANGED qvars

\* start(), line 189: self._thread.start() on whatever self._thread now is;
\* starting a Thread twice (or None) raises out of start()
StartLaunch(c) ==
  /\ callPc[c] = "s189"
  /\ IF thread # None /\ thrPc[thread] = "new"
     THEN thrPc' = [thrPc EXCEPT ![thread] = "w226"]
     ELSE UNCHANGED thrPc
  /\ callPc' = [callPc EXCEPT ![c] = "idle"]
  /\ UNCHANGED <<status, store, stop_event, thread, current_task_id, thrTask, thrFinal, callWait, callCleanup>>
  /\ UNCHANGED qvars

\* stop(), lines 195-199: the stop-already-requested check
StopCheckEvent(c, wait) ==
  /\ callPc[c] = "idle"
  /\ IF stop_event
     THEN /\ IF status \notin {STOPPING, STOPPED}
             THEN set_status(STOPPING) ELSE UNCHANGED <<status, store>>
          /\ UNCHANGED <<callPc, callWait>>
     ELSE /\ callPc' = [callPc EXCEPT ![c] = "p201"]
          /\ callWait' = [callWait EXCEPT ![c] = wait]
          /\ UNCHANGED <<status, store>>
  /\ UNCHANGED <<stop_event, thread, current_task_id, thrPc, thrTask, thrFinal, callCleanup>>
  /\ UNCHANGED qvars

\* stop(), lines 201-205: not running
StopCheckThread(c) ==
  /\ callPc[c] = "p201"
  /\ IF thread = None \/ ~is_alive(thread)
     THEN /\ IF status # ERROR THEN set_status(STOPPED) ELSE UNCHANGED <<status, store>>
          /\ callPc' = [callPc EXCEPT ![c] = "idle"]
     ELSE /\ callPc' = [callPc EXCEPT ![c] = "p208"]
          /\ UNCHANGED <<status, store>>
  /\ UNCHANGED <<stop_event, thread, current_task_id, thrPc, thrTask, thrFinal, callWait, callCleanup>>
  /\ UNCHANGED qvars

\* stop(), line 208
StopSetStatus(c) ==
  /\ callPc[c] = "p208"
  /\ set_status(STOPPING)
  /\ callPc' = [callPc EXCEPT ![c] = "p209"]
  /\ UNCHANGED <<stop_event, thread, current_task_id, thrPc, thrTask, thrFinal, callWait, callCleanup>>
  /\ UNCHANGED qvars

\* stop(), lines 209-211: the signal; without wait (or thread) the call returns
StopSetEvent(c) ==
  /\ callPc[c] = "p209"
  /\ stop_event' = TRUE
  /\ IF callWait[c] /\ thread # None
     THEN callPc' = [callPc EXCEPT ![c] = "p213"]
     ELSE callPc' = [callPc EXCEPT ![c] = "idle"]
  /\ UNCHANGED <<status, store, thread, current_task_id, thrPc, thrTask, thrFinal, callWait, callCleanup>>
  /\ UNCHANGED qvars

\* stop(), lines 213-218: join returns when the thread has ended or the
\* timeout has elapsed; is_alive then decides.  A join on a thread that was
\* never started, or on None, raises out of stop().
StopJoin(c) ==
  /\ callPc[c] = "p213"
  /\ IF thread # None /\ thrPc[thread] = "dead"
     THEN callPc' = [callPc EXCEPT ![c] = "p219"]
     ELSE callPc' = [callPc EXCEPT ![c] = "idle"]
  /\ UNCHANGED <<status, store, stop_event, thread, current_task_id, thrPc, thrTask, thrFinal, callWait, callCleanup>>
  /\ UNCHANGED qvars

\* stop(), lines 219-220
StopSetStopped(c) ==
  /\ callPc[c] = "p219"
  /\ IF status # ERROR THEN set_status(STOPPED) ELSE UNCHANGED <<status, store>>
  /\ callPc' = [callPc EXCEPT ![c] = "p221"]
  /\ UNCHANGED <<stop_event, thread, current_task_id, thrPc, thrTask, thrFinal, callWait, callCleanup>>
  /\ UNCHANGED qvars

\* stop(), line 221
StopClearThread(c) ==
  /\ callPc[c] = "p221"
  /\ thread' = None
  /\ callPc' = [callPc EXCEPT ![c] = "idle"]
  /\ UNCHANGED <<status, store, stop_event, current_task_id, thrPc, thrTask, thrFinal, callWait, callCleanup>>
  /\ UNCHANGED qvars

\* a step of the loop thread th that only moves it to position pc
Goto(th, pc) == thrPc' = [thrPc EXCEPT ![th] = pc]

\* _run_wrapper, lines 226-231 and 234
WrapperEntry(th) ==
  /\ thrPc[th] = "w226"
  /\ IF stop_event
     THEN set_status(STOPPED) /\ Goto(th, "w262")
     ELSE set_status(IDLE) /\ Goto(th, "r255")
  /\ UNCHANGED <<stop_event, thread, current_task_id, thrTask, thrFinal, callPc, callWait, callCleanup>>
  /\ UNCHANGED qvars

\* _run, lines 244-255: without a manager the status is set to ERROR and
\* _run returns to _run_wrapper; otherwise the status is set to IDLE
RunSetIdle(th) ==
  /\ thrPc[th] = "r255"
  /\ IF agent_manager = None
     THEN set_status(ERROR) /\ Goto(th, "w242")
     ELSE set_status(IDLE) /\ Goto(th, "r257")
  /\ UNCHANGED <<stop_event, thread, current_task_id, thrTask, thrFinal, callPc, callWait, callCleanup>>
  /\ UNCHANGED qvars

\* _run, line 257: the loop test
RunLoopTest(th) ==
  /\ thrPc[th] = "r257"
  /\ IF stop_event THEN Goto(th, "w242") ELSE Goto(th, "r262")
  /\ UNCHANGED <<status, store, stop_event, thread, current_task_id, thrTask, thrFinal, callPc, callWait, callCleanup>>
  /\ UNCHANGED qvars

\* _run, line 262: get_task(agent_id=self.id), the three steps of the call
RunGetEmpty(th) ==
  /\ thrPc[th] = "r262"
  /\ GetTaskEmpty(th, SelfId)
  /\ Goto(th, "r264")
  /\ UNCHANGED <<status, store, stop_event, thread, current_task_id, thrTask, thrFinal, callPc, callWait, callCleanup>>

RunGetPop(th) ==
  /\ thrPc[th] = "r262"
  /\ GetTaskPop(th, SelfId)
  /\ UNCHANGED avars

RunGetLocked(th) ==
  /\ thrPc[th] = "r262"
  /\ GetTaskLocked(th)
  /\ Goto(th, "r264")
  /\ UNCHANGED <<status, store, stop_event, thread, current_task_id, thrTask, thrFinal, callPc, callWait, callCleanup>>

\* _run, lines 264-266 and 318-321
RunGotTask(th) ==
  /\ thrPc[th] = "r264"
  /\ IF getRet[th] # 0
     THEN /\ thrTask' = [thrTask EXCEPT ![th] = getRet[th]]
          /\ current_task_id' = tasks[getRet[th]].task_id
          /\ Goto(th, "r267")
          /\ UNCHANGED <<status, store>>
     ELSE /\ set_status(IDLE)
          /\ Goto(th, "r257")
          /\ UNCHANGED <<thrTask, current_task_id>>
  /\ UNCHANGED <<stop_event, thread, thrFinal, callPc, callWait, callCleanup>>
  /\ UNCHANGED qvars

\* _run, line 267
RunSetRunning(th) ==
  /\ thrPc[th] = "r267"
  /\ set_status(RUNNING)
  /\ Goto(th, "r268")
  /\ UNCHANGED <<stop_event, thread, current_task_id, thrTask, thrFinal, callPc, callWait, callCleanup>>
  /\ UNCHANGED qvars

\* _run, line 268
RunMarkInProgress(th) ==
  /\ thrPc[th] = "r268"
  /\ update_task_progress(tasks[thrTask[th]].task_id, SelfId)
  /\ Goto(th, "r284")
  /\ UNCHANGED <<status, store, stop_event, thread, current_task_id, thrTask, thrFinal, callPc, callWait, callCleanup>>

\* _run, line 284
RunSetThinking(th) ==
  /\ thrPc[th] = "r284"
  /\ set_status(THINKING)
  /\ Goto(th, "r288")
  /\ UNCHANGED <<stop_event, thread, current_task_id, thrTask, thrFinal, callPc, callWait, callCleanup>>
  /\ UNCHANGED qvars

\* _run, lines 288-300: the executor returns and the task is completed
RunExecuteReturns(th, r) ==
  /\ thrPc[th] = "r288"
  /\ complete_task(tasks[thrTask[th]].task_id, r)
  /\ Goto(th, "r314")
  /\ UNCHANGED <<status, store, stop_event, thread, current_task_id, thrTask, thrFinal, callPc, callWait, callCleanup>>

RunExecuteOk(th) == \E r \in Results : RunExecuteReturns(th, r)

\* _run, lines 288, 302-305: the executor raises and the task is failed
RunExecuteRaises(th, e) ==
  /\ thrPc[th] = "r288"
  /\ fail_task(tasks[thrTask[th]].task_id, e)
  /\ Goto(th, "r314")
  /\ UNCHANGED <<status, store, stop_event, thread, current_task_id, thrTask, thrFinal, callPc, callWait, callCleanup>>

RunExecuteError(th) == \E e \in Errors : RunExecuteRaises(th, e)

\* variant: a failed task leaves the agent FAILED instead of IDLE
RunTaskDoneIdle_Escalates(th) ==
  /\ thrPc[th] = "r314"
  /\ IF tasks[thrTask[th]].status = FAILED
     THEN set_status(AGENT_FAILED) ELSE set_status(IDLE)
  /\ Goto(th, "r315")
  /\ UNCHANGED <<stop_event, thread, current_task_id, thrTask, thrFinal, callPc, callWait, callCleanup>>
  /\ UNCHANGED qvars

\* _run, line 314
RunTaskDoneIdle(th) ==
  /\ thrPc[th] = "r314"
  /\ set_status(IDLE)
  /\ Goto(th, "r315")
  /\ UNCHANGED <<stop_event, thread, current_task_id, thrTask, thrFinal, callPc, callWait, callCleanup>>
  /\ UNCHANGED qvars

\* _run, lines 315-316
RunClearTask(th) ==
  /\ thrPc[th] = "r315"
  /\ current_task_id' = None
  /\ thrTask' = [thrTask EXCEPT ![th] = 0]
  /\ save_state(status)
  /\ Goto(th, "r257")
  /\ UNCHANGED <<status, stop_event, thread, thrFinal, callPc, callWait, callCleanup>>
  /\ UNCHANGED qvars

\* _run_wrapper, lines 242-248: the final status is chosen
WrapperFinalStatus(th) ==
  /\ thrPc[th] = "w242"
  /\ thrFinal' = [thrFinal EXCEPT ![th] = IF stop_event THEN STOPPED ELSE IDLE]
  /\ Goto(th, "w258")
  /\ UNCHANGED <<status, store, stop_event, thread, current_task_id, thrTask, callPc, callWait, callCleanup>>
  /\ UNCHANGED qvars

\* _run_wrapper, lines 258-259
WrapperSetFinal(th) ==
  /\ thrPc[th] = "w258"
  /\ IF status # AGENT_FAILED THEN set_status(thrFinal[th]) ELSE UNCHANGED <<status, store>>
  /\ thrFinal' = [thrFinal EXCEPT ![th] = None]
  /\ Goto(th, "w262")
  /\ UNCHANGED <<stop_event, thread, current_task_id, thrTask, callPc, callWait, callCleanup>>
  /\ UNCHANGED qvars

\* _run_wrapper, lines 229-231 / 262-266: the stop callback, then the thread ends
WrapperCallback(th) ==
  /\ thrPc[th] = "w262"
  /\ Goto(th, "dead")
  /\ UNCHANGED <<status, store, stop_event, thread, current_task_id, thrTask, thrFinal, callPc, callWait, callCleanup>>
  /\ UNCHANGED qvars

\* _run, lines 259-337, and _run_wrapper, lines 250-253: a statement of the
\* loop body outside the executor's try block raises.  The handlers of the
\* loop start with "except queue.Empty", and task_agent.py does not import
\* queue, so matching the exception raises NameError out of _run;
\* _run_wrapper sets final_status and the status to FAILED.
RunLoopFault(th) ==
  /\ thrPc[th] \in {"r262", "r264", "r267", "r268", "r314", "r315"}
  /\ getPc[th] = "idle"
  /\ set_status(AGENT_FAILED)
  /\ thrFinal' = [thrFinal EXCEPT ![th] = AGENT_FAILED]
  /\ Goto(th, "w258")
  /\ UNCHANGED <<stop_event, thread, current_task_id, thrTask, callPc, callWait, callCleanup>>
  /\ UNCHANGED qvars

LoopFault == (\E th \in Threads : RunLoopFault(th)) /\ UNCHANGED mvars

\* ---- one agent, two caller threads, one producer
AddTaskA == \E id \in QueueIds, target \in Workers \cup {None} :
              AddTaskLocked("p1", id, 1, target, MaxAgentTasks) /\ UNCHANGED avars
PutA == AddTaskPut("p1") /\ UNCHANGED avars
EmitA == AddTaskEmit("p1") /\ UNCHANGED avars
StartSteps(c) ==
  \/ StartCheckThread(c)
  \/ StartCheckStatus(c)
  \/ StartSetStatus(c)
  \/ StartClearEvent(c)
  \/ StartCreateThread(c)
  \/ StartLaunch(c)
StopSteps(c) ==
  \/ \E wait \in BOOLEAN : StopCheckEvent(c, wait)
  \/ StopCheckThread(c)
  \/ StopSetStatus(c)
  \/ StopSetEvent(c)
  \/ StopJoin(c)
  \/ StopSetStopped(c)
  \/ StopClearThread(c)
Start == (\E c \in Callers : StartSteps(c)) /\ UNCHANGED mvars
Stop == (\E c \in Callers : StopSteps(c)) /\ UNCHANGED mvars
Loop ==
  /\ UNCHANGED mvars
  /\ \E th \in Threads :
    \/ WrapperEntry(th)
    \/ RunSetIdle(th)
    \/ RunLoopTest(th)
    \/ RunGetEmpty(th)
    \/ RunGetPop(th)
    \/ RunGetLocked(th)
    \/ RunGotTask(th)
    \/ RunSetRunning(th)
    \/ RunMarkInProgress(th)
    \/ RunSetThinking(th)
    \/ RunExecuteOk(th)
    \/ RunExecuteError(th)
    \/ RunTaskDoneIdle(th)
    \/ RunClearTask(th)
    \/ WrapperFinalStatus(th)
    \/ WrapperSetFinal(th)
    \/ WrapperCallback(th)

NextAgent ==
  \/ AddTaskA
  \/ PutA
  \/ EmitA
  \/ Start
  \/ Stop
  \/ Loop

SpecAgent == Init /\ [][NextAgent]_vars


\* --------------------------------------------------------- AgentInstance
\* The same fields (_status, _stop_event, _thread) with AgentInstance's own
\* start / stop / cleanup and loop.  The loop asks the TaskQueue for
\* get(block, timeout), a method TaskQueue does not have: every iteration
\* ends in the handler of line 329.

\* models.AgentStatus: the value of each member
StatusValue(s) ==
  CASE s = IDLE -> "idle"
    [] s = STARTING -> "starting"
    [] s = RUNNING -> "running"
    [] s = STOPPING -> "stopping"
    [] s = STOPPED -> "stopped"
    [] s = ERROR -> "error"
    [] OTHER -> "unknown"

\* AgentState.from_dict: AgentStatus(status_str), UNKNOWN for any other string
AgentStatusOf(v) ==
  CASE v = "idle" -> IDLE
    [] v = "starting" -> STARTING
    [] v = "running" -> RUNNING
    [] v = "stopping" -> STOPPING
    [] v = "stopped" -> STOPPED
    [] v = "error" -> ERROR
    [] OTHER -> UNKNOWN

\* AgentStore.save_agent_state: AgentState.to_dict writes status.value; a
\* failure is caught and logged
save_agent_state(s) == store' = IF disk_fails THEN store ELSE StatusValue(s)

\* AgentInstance._set_status: the assignment, then save_state
_set_status(new_status) ==
  IF status # new_status
  THEN status' = new_status /\ save_agent_state(new_status)
  ELSE UNCHANGED <<status, store>>

\* stop() returns: to the caller, or into cleanup() at line 392
StopReturn(c) ==
  /\ callPc' = [callPc EXCEPT ![c] = IF callCleanup[c] THEN "k392" ELSE "idle"]

\* AgentInstance.start, line 343
IStartCheckThread(c) ==
  /\ callPc[c] = "idle"
  /\ Cardinality({th \in Threads : thrPc[th] = "unborn"})
       > Cardinality({d \in Callers : callPc[d] \in {"i346", "i351", "i352", "i353"}})
  /\ IF thread # None /\ is_alive(thread)
     THEN UNCHANGED callPc
     ELSE callPc' = [callPc EXCEPT ![c] = "i346"]
  /\ UNCHANGED <<status, store, stop_event, thread, current_task_id, thrPc, thrTask, thrFinal, callWait, callCleanup>>
  /\ UNCHANGED qvars

\* AgentInstance.start, lines 346-348
IStartCheckStatus(c) ==
  /\ callPc[c] = "i346"
  /\ IF status \in {RUNNING, STARTING}
     THEN callPc' = [callPc EXCEPT ![c] = "idle"]
     ELSE callPc' = [callPc EXCEPT ![c] = "i351"]
  /\ UNCHANGED <<status, store, stop_event, thread, current_task_id, thrPc, thrTask, thrFinal, callWait, callCleanup>>
  /\ UNCHANGED qvars

\* AgentInstance.start, line 351
IStartSetStatus(c) ==
  /\ callPc[c] = "i351"
  /\ _set_status(STARTING)
  /\ callPc' = [callPc EXCEPT ![c] = "i352"]
  /\ UNCHANGED <<stop_event, thread, current_task_id, thrPc, thrTask, thrFinal, callWait, callCleanup>>
  /\ UNCHANGED qvars

\* AgentInstance.start, line 352
IStartClearEvent(c) ==
  /\ callPc[c] = "i352"
  /\ stop_event' = FALSE
  /\ callPc' = [callPc EXCEPT ![c] = "i353"]
  /\ UNCHANGED <<status, store, thread, current_task_id, thrPc, thrTask, thrFinal, callWait, callCleanup>>
  /\ UNCHANGED qvars

\* AgentInstance.start, lines 353-354
IStartCreateThread(c) ==
  /\ callPc[c] = "i353"
  /\ \E th \in Threads :
       /\ thrPc[th] = "unborn"
       /\ \A u \in Threads : thrPc[u] = "unborn" => ThreadNo(th) <= ThreadNo(u)
       /\ thrPc' = [thrPc EXCEPT ![th] = "new"]
       /\ thread' = th
  /\ callPc' = [callPc EXCEPT ![c] = "i355"]
  /\ UNCHANGED <<status, store, stop_event, current_task_id, thrTask, thrFinal, callWait, callCleanup>>
  /\ UNCHANGED qvars

\* AgentInstance.start, line 355
IStartLaunch(c) ==
  /\ callPc[c] = "i355"
  /\ IF thread # None /\ thrPc[thread] = "new"
     THEN thrPc' = [thrPc EXCEPT ![thread] = "a307"]
     ELSE UNCHANGED thrPc
  /\ callPc' = [callPc EXCEPT ![c] = "idle"]
  /\ UNCHANGED <<status, store, stop_event, thread, current_task_id, thrTask, thrFinal, callWait, callCleanup>>
  /\ UNCHANGED qvars

\* AgentInstance.stop, lines 361-365; called by a caller thread (cleanup =
\* FALSE) or from cleanup() at line 391 (wait = TRUE)
IStopCheckEvent(c, wait, cleanup) ==
  /\ callPc[c] = "idle"
  /\ IF stop_event
     THEN /\ IF status \notin {STOPPING, STOPPED}
             THEN _set_status(STOPPING) ELSE UNCHANGED <<status, store>>
          /\ callPc' = [callPc EXCEPT ![c] = IF cleanup THEN "k392" ELSE "idle"]
          /\ UNCHANGED <<callWait, callCleanup>>
     ELSE /\ callPc' = [callPc EXCEPT ![c] = "j367"]
          /\ callWait' = [callWait EXCEPT ![c] = wait]
          /\ callCleanup' = [callCleanup EXCEPT ![c] = cleanup]
          /\ UNCHANGED <<status, store>>
  /\ UNCHANGED <<stop_event, thread, current_task_id, thrPc, thrTask, thrFinal>>
  /\ UNCHANGED qvars

\* AgentInstance.stop, lines 367-371
IStopCheckThread(c) ==
  /\ callPc[c] = "j367"
  /\ IF thread = None \/ ~is_alive(thread)
     THEN /\ IF status \notin {ERROR, STOPPED}
             THEN _set_status(STOPPED) ELSE UNCHANGED <<status, store>>
          /\ StopReturn(c)
     ELSE /\ callPc' = [callPc EXCEPT ![c] = "j374"]
          /\ UNCHANGED <<status, store>>
  /\ UNCHANGED <<stop_event, thread, current_task_id, thrPc, thrTask, thrFinal, callWait, callCleanup>>
  /\ UNCHANGED qvars

\* AgentInstance.stop, line 374
IStopSetStatus(c) ==
  /\ callPc[c] = "j374"
  /\ _set_status(STOPPING)
  /\ callPc' = [callPc EXCEPT ![c] = "j375"]
  /\ UNCHANGED <<stop_event, thread, current_task_id, thrPc, thrTask, thrFinal, callWait, callCleanup>>
  /\ UNCHANGED qvars

\* AgentInstance.stop, lines 375-377
IStopSetEvent(c) ==
  /\ callPc[c] = "j375"
  /\ stop_event' = TRUE
  /\ IF callWait[c] /\ thread # None
     THEN callPc' = [callPc EXCEPT ![c] = "j379"]
     ELSE StopReturn(c)
  /\ UNCHANGED <<status, store, thread, current_task_id, thrPc, thrTask, thrFinal, callWait, callCleanup>>
  /\ UNCHANGED qvars

\* AgentInstance.stop, lines 379-386: join returns when the thread has ended
\* or the timeout has elapsed
IStopJoin(c) ==
  /\ callPc[c] = "j379"
  /\ IF thread # None /\ thrPc[thread] = "dead"
     THEN callPc' = [callPc EXCEPT ![c] = "j385"]
     ELSE StopReturn(c)
  /\ UNCHANGED <<status, store, stop_event, thread, current_task_id, thrPc, thrTask, thrFinal, callWait, callCleanup>>
  /\ UNCHANGED qvars

\* AgentInstance.stop, lines 385-386
IStopSetStopped(c) ==
  /\ callPc[c] = "j385"
  /\ IF status # ERROR THEN _set_status(STOPPED) ELSE UNCHANGED <<status, store>>
  /\ StopReturn(c)
  /\ UNCHANGED <<stop_event, thread, current_task_id, thrPc, thrTask, thrFinal, callWait, callCleanup>>
  /\ UNCHANGED qvars

\* AgentInstance.cleanup, lines 392-393, after its stop(wait=True) returned
ICleanupClearThread(c) ==
  /\ callPc[c] = "k392"
  /\ thread' = None
  /\ callPc' = [callPc EXCEPT ![c] = "idle"]
  /\ callCleanup' = [callCleanup EXCEPT ![c] = FALSE]
  /\ UNCHANGED <<status, store, stop_event, current_task_id, thrPc, thrTask, thrFinal, callWait>>
  /\ UNCHANGED qvars

\* _async_execute_loop, lines 307-308
ILoopEntry(th) ==
  /\ thrPc[th] = "a307"
  /\ IF status \notin {STOPPED, ERROR} THEN _set_status(IDLE) ELSE UNCHANGED <<status, store>>
  /\ Goto(th, "a310")
  /\ UNCHANGED <<stop_event, thread, current_task_id, thrTask, thrFinal, callPc, callWait, callCleanup>>
  /\ UNCHANGED qvars

\* _async_execute_loop, line 310
ILoopTest(th) ==
  /\ thrPc[th] = "a310"
  /\ IF stop_event THEN Goto(th, "a335") ELSE Goto(th, "a313")
  /\ UNCHANGED <<status, store, stop_event, thread, current_task_id, thrTask, thrFinal, callPc, callWait, callCleanup>>
  /\ UNCHANGED qvars

\* _async_execute_loop, lines 313 and 329-332: TaskQueue has no get();
\* the AttributeError is handled by setting ERROR and sleeping
ILoopGetFails(th) ==
  /\ thrPc[th] = "a313"
  /\ _set_status(ERROR)
  /\ Goto(th, "a310")
  /\ UNCHANGED <<stop_event, thread, current_task_id, thrTask, thrFinal, callPc, callWait, callCleanup>>
  /\ UNCHANGED qvars

\* _async_execute_loop, lines 335-338
ILoopExit(th) ==
  /\ thrPc[th] = "a335"
  /\ IF status # ERROR THEN _set_status(STOPPED) ELSE UNCHANGED <<status, store>>
  /\ Goto(th, "a299")
  /\ UNCHANGED <<stop_event, thread, current_task_id, thrTask, thrFinal, callPc, callWait, callCleanup>>
  /\ UNCHANGED qvars

\* variant: the callback never looks at the status
ILoopCallback_Ignore(th) ==
  /\ thrPc[th] = "a299"
  /\ Goto(th, "dead")
  /\ UNCHANGED <<status, store, stop_event, thread, current_task_id, thrTask, thrFinal, callPc, callWait, callCleanup>>
  /\ UNCHANGED qvars

\* _run_async_loop, lines 299-301, calling
\* AgentManager._handle_agent_thread_stop, lines 313-317: the agent is looked
\* up and its status examined; without a registered agent, or with STOPPED
\* or ERROR, the callback returns and the thread ends
ILoopCallback(th) ==
  /\ thrPc[th] = "a299"
  /\ IF registered /\ status \notin {STOPPED, ERROR}
     THEN Goto(th, "m319") ELSE Goto(th, "dead")
  /\ UNCHANGED <<status, store, stop_event, thread, current_task_id, thrTask, thrFinal, callPc, callWait, callCleanup>>
  /\ UNCHANGED qvars

\* _handle_agent_thread_stop, line 319; the thread ends
ILoopSetError(th) ==
  /\ thrPc[th] = "m319"
  /\ _set_status(ERROR)
  /\ Goto(th, "dead")
  /\ UNCHANGED <<stop_event, thread, current_task_id, thrTask, thrFinal, callPc, callWait, callCleanup>>
  /\ UNCHANGED qvars

\* _run_async_loop, lines 276-283: setting up the event loop raises; the
\* handler sets ERROR and the finally block goes on to the callback
ILoopCrash(th) ==
  /\ thrPc[th] = "a307"
  /\ _set_status(ERROR)
  /\ Goto(th, "a299")
  /\ UNCHANGED <<stop_event, thread, current_task_id, thrTask, thrFinal, callPc, callWait, callCleanup>>
  /\ UNCHANGED qvars

\* ---- one AgentInstance driven by a single caller thread
IStart ==
  /\ UNCHANGED mvars
  /\ \/ IStartCheckThread("c1")
     \/ IStartCheckStatus("c1")
     \/ IStartSetStatus("c1")
     \/ IStartClearEvent("c1")
     \/ IStartCreateThread("c1")
     \/ IStartLaunch("c1")
IStop ==
  /\ UNCHANGED mvars
  /\ \/ \E wait \in BOOLEAN : IStopCheckEvent("c1", wait, FALSE)
     \/ IStopCheckThread("c1")
     \/ IStopSetStatus("c1")
     \/ IStopSetEvent("c1")
     \/ IStopJoin("c1")
     \/ IStopSetStopped("c1")
ICleanup ==
  /\ UNCHANGED mvars
  /\ \/ IStopCheckEvent("c1", TRUE, TRUE)
     \/ ICleanupClearThread("c1")
ILoop ==
  /\ UNCHANGED mvars
  /\ \E th \in Threads :
       \/ ILoopEntry(th)
       \/ ILoopTest(th)
       \/ ILoopGetFails(th)
       \/ ILoopExit(th)
       \/ ILoopCallback(th)
       \/ ILoopSetError(th)
       \/ ILoopCrash(th)

NextInstance ==
  \/ IStart
  \/ IStop
  \/ ICleanup
  \/ ILoop

SpecInstance == Init /\ [][NextInstance]_vars

\* ----------------------------------------------------------- AgentManager
\* One agent id.  The manager's methods run on the caller thread "c1"; mgrPc
\* is the line the method in progress returns to when the AgentInstance
\* call it made has returned.

\* state files found on disk when the manager is constructed: written by
\* AgentInstance (status.value) or by BaseAgent (status.name)
Snapshots == {"idle", "starting", "running", "stopped", "THINKING"}

\* AgentManager.__init__ before load_agents: no instance yet
MInit ==
  /\ QInit
  /\ AFields
  /\ agent_manager = "manager"
  /\ status = None
  /\ store \in Snapshots \cup {None}
  /\ manifest = (store # None)
  /\ disk_fails = FALSE
  /\ registered = FALSE
  /\ created = FALSE
  /\ mgrPc = "init"

\* the caller is inside no AgentManager or AgentInstance method
AtRest == mgrPc = "idle" /\ callPc["c1"] = "idle"

\* AgentManager.load_agents (called by __init__): AgentInstance.from_state
\* builds the instance with the status AgentState.from_dict parsed, or
\* returns None; an auto_start instance not STOPPED / ERROR is started
LoadAgents ==
  /\ mgrPc = "init"
  /\ \E ok \in BOOLEAN, auto_start \in BOOLEAN :
       IF manifest /\ store # None /\ ok
       THEN /\ status' = AgentStatusOf(store)
            /\ histories' = <<>>
            /\ registered' = TRUE
            /\ created' = TRUE
            /\ IF auto_start /\ AgentStatusOf(store) \notin {STOPPED, ERROR}
               THEN /\ callPc' = [callPc EXCEPT !["c1"] = "i346"]
                    /\ mgrPc' = "l262"
               ELSE /\ mgrPc' = "idle"
                    /\ UNCHANGED callPc
       ELSE /\ mgrPc' = "idle"
            /\ UNCHANGED <<status, registered, created, callPc, histories>>
  /\ UNCHANGED <<store, disk_fails, manifest, history_file, agent_manager, setPc, setArg, state_data, stop_event, thread, current_task_id,
                 thrPc, thrTask, thrFinal, callWait, callCleanup>>
  /\ UNCHANGED qvars

\* AgentManager.create_agent, lines 209-229: construct, register, save the
\* state and the manifest entry, then start() when auto_start
CreateAgent ==
  /\ AtRest
  /\ ~created
  /\ \E auto_start \in BOOLEAN :
       /\ status' = (IF auto_start THEN IDLE ELSE STOPPED)
       /\ save_agent_state(IF auto_start THEN IDLE ELSE STOPPED)
       /\ IF auto_start
          THEN /\ callPc' = [callPc EXCEPT !["c1"] = "i346"]
               /\ mgrPc' = "c229"
          ELSE UNCHANGED <<callPc, mgrPc>>
  /\ registered' = TRUE
  /\ created' = TRUE
  /\ manifest' = (IF disk_fails THEN manifest ELSE TRUE)
  /\ histories' = <<>>
  /\ UNCHANGED <<disk_fails, history_file, agent_manager, setPc, setArg, state_data, stop_event, thread, current_task_id,
                 thrPc, thrTask, thrFinal, callWait, callCleanup>>
  /\ UNCHANGED qvars

\* AgentManager.assign_task: self._task_queue.put(task) raises AttributeError
\* (TaskQueue defines add_task, not put); the handler at lines 307-309 logs
\* and the method is about to return False.  Nothing is queued.
AssignTask ==
  /\ AtRest
  /\ mgrPc' = "t309"
  /\ UNCHANGED <<disk_fails, manifest, registered, created>>
  /\ UNCHANGED <<hvars, fvars>>
  /\ UNCHANGED qvars

\* create_agent / load_agents / shutdown return once the call they made has;
\* assign_task returns
MgrReturn ==
  /\ mgrPc \in {"c229", "l262", "s330", "t309"}
  /\ callPc["c1"] = "idle"
  /\ mgrPc' = "idle"
  /\ UNCHANGED <<status, store, disk_fails, manifest, registered, created, stop_event, thread,
                 current_task_id, thrPc, thrTask, thrFinal, callPc, callWait, callCleanup>>
  /\ UNCHANGED <<hvars, agent_manager, setPc, setArg, state_data>>
  /\ UNCHANGED qvars

\* AgentManager.remove_agent, lines 276-278: instance.stop()
RemoveStop ==
  /\ AtRest
  /\ registered
  /\ IStopCheckEvent("c1", FALSE, FALSE)
  /\ mgrPc' = "r280"
  /\ UNCHANGED <<disk_fails, manifest, registered, created>>
  /\ UNCHANGED <<hvars, agent_manager, setPc, setArg, state_data>>

\* remove_agent, line 280: instance.cleanup(), which calls stop(wait=True)
RemoveCleanup ==
  /\ mgrPc = "r280"
  /\ callPc["c1"] = "idle"
  /\ IStopCheckEvent("c1", TRUE, TRUE)
  /\ mgrPc' = "r282"
  /\ UNCHANGED <<disk_fails, manifest, registered, created>>
  /\ UNCHANGED <<hvars, agent_manager, setPc, setArg, state_data>>

\* remove_agent, lines 282-284: the registry entry is deleted
RemoveDelete ==
  /\ mgrPc = "r282"
  /\ callPc["c1"] = "idle"
  /\ registered' = FALSE
  /\ mgrPc' = "r286"
  /\ UNCHANGED <<status, store, disk_fails, manifest, created, stop_event, thread,
                 current_task_id, thrPc, thrTask, thrFinal, callPc, callWait, callCleanup>>
  /\ UNCHANGED <<hvars, agent_manager, setPc, setArg, state_data>>
  /\ UNCHANGED qvars

\* remove_agent, lines 285-292: state file, history file and manifest entry
\* are removed and the method returns
RemoveStore ==
  /\ mgrPc = "r286"
  /\ store' = None
  /\ history_file' = <<>>
  /\ manifest' = FALSE
  /\ mgrPc' = "idle"
  /\ UNCHANGED <<histories, agent_manager, setPc, setArg, state_data>>
  /\ UNCHANGED <<status, disk_fails, registered, created, stop_event, thread,
                 current_task_id, thrPc, thrTask, thrFinal, callPc, callWait, callCleanup>>
  /\ UNCHANGED qvars

\* AgentManager.shutdown, lines 325-330: agent.stop() on each registered agent
ShutdownStop ==
  /\ AtRest
  /\ registered
  /\ IStopCheckEvent("c1", FALSE, FALSE)
  /\ mgrPc' = "s330"
  /\ UNCHANGED <<disk_fails, manifest, registered, created>>
  /\ UNCHANGED <<hvars, agent_manager, setPc, setArg, state_data>>

\* AgentInstance.start() / stop() called on a registered agent by its holder
MStart ==
  /\ AtRest
  /\ registered
  /\ IStartCheckThread("c1")
  /\ UNCHANGED mvars
MStop ==
  /\ AtRest
  /\ registered
  /\ \E wait \in BOOLEAN : IStopCheckEvent("c1", wait, FALSE)
  /\ UNCHANGED mvars

\* the later steps of the AgentInstance call in progress
MCall ==
  /\ UNCHANGED mvars
  /\ \/ IStartCheckStatus("c1")
     \/ IStartSetStatus("c1")
     \/ IStartClearEvent("c1")
     \/ IStartCreateThread("c1")
     \/ IStartLaunch("c1")
     \/ IStopCheckThread("c1")
     \/ IStopSetStatus("c1")
     \/ IStopSetEvent("c1")
     \/ IStopJoin("c1")
     \/ IStopSetStopped("c1")
     \/ ICleanupClearThread("c1")

\* writing to the data directory starts or stops failing
DiskFault ==
  /\ disk_fails' = ~disk_fails
  /\ UNCHANGED <<status, store, manifest, registered, created, mgrPc, stop_event, thread,
                 current_task_id, thrPc, thrTask, thrFinal, callPc, callWait, callCleanup>>
  /\ UNCHANGED <<hvars, agent_manager, setPc, setArg, state_data>>
  /\ UNCHANGED qvars

NextManager ==
  \/ LoadAgents
  \/ CreateAgent
  \/ MgrReturn
  \/ RemoveStop
  \/ RemoveCleanup
  \/ RemoveDelete
  \/ RemoveStore
  \/ ShutdownStop
  \/ AssignTask
  \/ MStart
  \/ MStop
  \/ MCall
  \/ ILoop
  \/ DiskFault

SpecManager == MInit /\ [][NextManager]_vars


\* the agent a consumer thread of the queue specification polls for
QAgent(th) == IF th = "th1" THEN "w1" ELSE "w2"

\* ---- the queue under concurrent producers and consumers
AddTask == \E p \in Producers, id \in QueueIds, prio \in Priorities, target \in Workers \cup {None} :
             AddTaskLocked(p, id, prio, target, MaxTasks) /\ UNCHANGED avars
Put == \E p \in Producers : AddTaskPut(p) /\ UNCHANGED avars
Emit == \E p \in Producers : AddTaskEmit(p) /\ UNCHANGED avars
GetEmpty == \E th \in Threads : GetTaskEmpty(th, QAgent(th)) /\ UNCHANGED avars
GetPop == \E th \in Threads : GetTaskPop(th, QAgent(th)) /\ UNCHANGED avars
GetLocked == \E th \in Threads : GetTaskLocked(th) /\ UNCHANGED avars

Next ==
  \/ AddTask
  \/ Put
  \/ Emit
  \/ GetEmpty
  \/ GetPop
  \/ GetLocked

Spec == Init /\ [][Next]_vars

\* ---- every TaskQueue operation, one producer and one consumer thread
AddTaskS == \E id \in QueueIds, target \in Workers \cup {None} :
              AddTaskLocked("p1", id, 1, target, MaxStatusTasks) /\ UNCHANGED avars
GetEmptyS == \E a \in Workers : GetTaskEmpty("th1", a) /\ UNCHANGED avars
GetPopS == \E a \in Workers : GetTaskPop("th1", a) /\ UNCHANGED avars
GetLockedS == GetTaskLocked("th1") /\ UNCHANGED avars
Complete == \E id \in QueueIds, r \in Results : complete_task(id, r) /\ UNCHANGED avars
Fail == \E id \in QueueIds, e \in Errors : fail_task(id, e) /\ UNCHANGED avars
MarkInProgress == \E id \in QueueIds, a \in Workers \cup {None} : update_task_progress(id, a) /\ UNCHANGED avars

NextStatus ==
  \/ AddTaskS
  \/ PutA
  \/ EmitA
  \/ GetEmptyS
  \/ GetPopS
  \/ GetLockedS
  \/ Complete
  \/ Fail
  \/ MarkInProgress

SpecStatus == Init /\ [][NextStatus]_vars

\* ---- untargeted tasks of one priority, one producer and one consumer
AddTaskF == \E id \in TaskIds : AddTaskLocked("p1", id, 1, None, MaxFifoTasks) /\ UNCHANGED avars
GetEmptyF == GetTaskEmpty("th1", "w1") /\ UNCHANGED avars
GetPopF == GetTaskPop("th1", "w1") /\ UNCHANGED avars

NextFifo ==
  \/ AddTaskF
  \/ PutA
  \/ EmitA
  \/ GetEmptyF
  \/ GetPopF
  \/ GetLockedS

SpecFifo == Init /\ [][NextFifo]_vars

\* ---- one agent, one caller thread: every status an agent can be built with
\* BaseAgent.__init__, lines 62-103: initial_status as passed, or the status
\* of the loaded state with RUNNING / STARTING / THINKING / STOPPING made IDLE
InitialStatuses == {UNKNOWN, INITIALIZING, IDLE, STOPPED, AGENT_FAILED, ERROR}

InitLife ==
  /\ QInit
  /\ AFields
  /\ agent_manager = "manager"
  /\ status \in InitialStatuses
  /\ store = None
  /\ disk_fails = FALSE
  /\ manifest = TRUE
  /\ registered = TRUE
  /\ created = TRUE
  /\ mgrPc = "idle"

AddTaskL == \E id \in QueueIds, target \in Workers \cup {None} :
              AddTaskLocked("p1", id, 1, target, MaxLifeTasks) /\ UNCHANGED avars
StartL == StartSteps("c1") /\ UNCHANGED mvars
StopL == StopSteps("c1") /\ UNCHANGED mvars

NextLife ==
  \/ AddTaskL
  \/ PutA
  \/ EmitA
  \/ StartL
  \/ StopL
  \/ Loop

SpecLife == InitLife /\ [][NextLife]_vars

\* ---- one agent, one caller thread, untargeted tasks that succeed or fail,
\* and a data directory that accepts writes or refuses every one of them
InitWork ==
  /\ QInit
  /\ AFields
  /\ agent_manager = "manager"
  /\ status = IDLE
  /\ store = None
  /\ disk_fails \in BOOLEAN
  /\ manifest = TRUE
  /\ registered = TRUE
  /\ created = TRUE
  /\ mgrPc = "idle"

AddTaskW == \E id \in QueueIds :
              AddTaskLocked("p1", id, 1, None, MaxWorkTasks) /\ UNCHANGED avars

NextWork ==
  \/ AddTaskW
  \/ PutA
  \/ EmitA
  \/ StartL
  \/ StopL
  \/ Loop

SpecWork == InitWork /\ [][NextWork]_vars

\* ---- set_status and save_state statement by statement: the loop thread of a
\* running agent with an empty queue, and stop(wait=False) called on other threads
\* the call set_status(new_status) made by thread x
call_set_status(x, new_status) ==
  /\ setPc' = [setPc EXCEPT ![x] = "s119"]
  /\ setArg' = [setArg EXCEPT ![x] = new_status]
  /\ UNCHANGED state_data

\* BaseAgent.set_status and save_state, one statement at a time, with no lock:
\* line 119-121 compares and assigns _status, line 160 reads the status into
\* state_data, line 161 writes state_data to the state file
set_status_steps(x) ==
  /\ \/ /\ setPc[x] = "s119"
        /\ IF status # setArg[x]
           THEN /\ status' = setArg[x]
                /\ setPc' = [setPc EXCEPT ![x] = "v158"]
           ELSE /\ setPc' = [setPc EXCEPT ![x] = "idle"]
                /\ UNCHANGED status
        /\ UNCHANGED <<setArg, state_data, store>>
     \/ /\ setPc[x] = "v158"
        /\ IF agent_manager = None
           THEN /\ setPc' = [setPc EXCEPT ![x] = "idle"]
                /\ UNCHANGED state_data
           ELSE /\ state_data' = [state_data EXCEPT ![x] = StatusName(status)]
                /\ setPc' = [setPc EXCEPT ![x] = "v161"]
        /\ UNCHANGED <<setArg, status, store>>
     \/ /\ setPc[x] = "v161"
        /\ store' = IF disk_fails THEN store ELSE state_data[x]
        /\ state_data' = [state_data EXCEPT ![x] = None]
        /\ setPc' = [setPc EXCEPT ![x] = "idle"]
        /\ UNCHANGED <<setArg, status>>
  /\ UNCHANGED <<qvars, hvars, stop_event, thread, current_task_id, thrPc, thrTask, thrFinal, callPc, callWait,
                 callCleanup, disk_fails, manifest, registered, created, mgrPc, agent_manager>>

\* TaskAgent._run on an empty queue (lines 257-262, 319-321) and the end of
\* _run_wrapper (lines 241-243, 256-259); a call of set_status returns before
\* the thread takes its next step
SaveLoop(th) ==
  /\ setPc[th] = "idle"
  /\ \/ /\ thrPc[th] = "r257"
        /\ Goto(th, IF stop_event THEN "w241" ELSE "r262")
        /\ UNCHANGED <<getRet, thrFinal, setPc, setArg, state_data>>
     \/ /\ thrPc[th] = "r262"
        /\ getPc[th] = "idle"
        /\ queue = <<>>
        /\ getRet' = [getRet EXCEPT ![th] = 0]
        /\ Goto(th, "r320")
        /\ UNCHANGED <<thrFinal, setPc, setArg, state_data>>
     \/ /\ thrPc[th] = "r320"
        /\ IF status # IDLE
           THEN call_set_status(th, IDLE)
           ELSE UNCHANGED <<setPc, setArg, state_data>>
        /\ Goto(th, "r257")
        /\ UNCHANGED <<getRet, thrFinal>>
     \/ /\ thrPc[th] = "w241"
        /\ thrFinal' = [thrFinal EXCEPT ![th] = STOPPED]
        /\ IF status # AGENT_FAILED
           THEN call_set_status(th, STOPPED)
           ELSE UNCHANGED <<setPc, setArg, state_data>>
        /\ Goto(th, "w261")
        /\ UNCHANGED getRet
     \/ /\ thrPc[th] = "w261"
        /\ Goto(th, "dead")
        /\ UNCHANGED <<getRet, thrFinal, setPc, setArg, state_data>>
  /\ UNCHANGED <<tasks, all_tasks, queue, addPc, addTask, getPc, getAgent, getItem, popStatus, rets, enq, requeued,
                 signals, hvars, status, store, stop_event, thread, current_task_id, thrTask, callPc, callWait,
                 callCleanup, disk_fails, manifest, registered, created, mgrPc, agent_manager>>

\* BaseAgent.stop(wait=False), lines 195-209 and the return at line 211
SaveStop(c) ==
  /\ setPc[c] = "idle"
  /\ \/ /\ callPc[c] = "idle"
        /\ IF stop_event
           THEN /\ IF status \notin {STOPPING, STOPPED}
                   THEN call_set_status(c, STOPPING)
                   ELSE UNCHANGED <<setPc, setArg, state_data>>
                /\ UNCHANGED callPc
           ELSE IF thread = None \/ ~is_alive(thread)
           THEN /\ IF status # ERROR
                   THEN call_set_status(c, STOPPED)
                   ELSE UNCHANGED <<setPc, setArg, state_data>>
                /\ UNCHANGED callPc
           ELSE /\ call_set_status(c, STOPPING)
                /\ callPc' = [callPc EXCEPT ![c] = "p209"]
        /\ UNCHANGED stop_event
     \/ /\ callPc[c] = "p209"
        /\ stop_event' = TRUE
        /\ callPc' = [callPc EXCEPT ![c] = "idle"]
        /\ UNCHANGED <<setPc, setArg, state_data>>
  /\ UNCHANGED <<qvars, hvars, status, store, thread, current_task_id, thrPc, thrTask, thrFinal, callWait,
                 callCleanup, disk_fails, manifest, registered, created, mgrPc, agent_manager>>

\* the agent after start(), its loop on thread th1 about to test the stop
\* event; the last set_status (IDLE, line 255) has been saved; writing works
InitSave ==
  /\ QInit
  /\ stop_event = FALSE
  /\ thread = "th1"
  /\ current_task_id = None
  /\ thrPc = [th \in Threads |-> IF th = "th1" THEN "r257" ELSE "unborn"]
  /\ thrTask = [th \in Threads |-> 0]
  /\ thrFinal = [th \in Threads |-> None]
  /\ callPc = [c \in Callers |-> "idle"]
  /\ callWait = [c \in Callers |-> FALSE]
  /\ callCleanup = [c \in Callers |-> FALSE]
  /\ histories = <<>>
  /\ history_file = <<>>
  /\ setPc = [x \in Setters |-> "idle"]
  /\ setArg = [x \in Setters |-> None]
  /\ state_data = [x \in Setters |-> None]
  /\ agent_manager = "manager"
  /\ status = IDLE
  /\ store = "IDLE"
  /\ disk_fails = FALSE
  /\ manifest = TRUE
  /\ registered = TRUE
  /\ created = TRUE
  /\ mgrPc = "idle"

NextSave ==
  \/ \E x \in Setters : set_status_steps(x)
  \/ SaveLoop("th1")
  \/ \E c \in Callers : SaveStop(c)

SpecSave == InitSave /\ [][NextSave]_vars

\* ---- the queue polled forever by two workers while a third never polls
\* the id of an agent whose loop is not running: it never calls get_task
NeverPolls == "w3"

AddTaskV == \E id \in QueueIds, prio \in Priorities, target \in {None, NeverPolls} :
              AddTaskLocked("p1", id, prio, target, MaxStarveTasks) /\ UNCHANGED avars

\* one step of the get_task call of the loop running on thread th; the loop
\* calls get_task again as soon as the call has returned (task_agent.py 257-262)
Poll(th) ==
  /\ \/ GetTaskEmpty(th, QAgent(th))
     \/ GetTaskPop(th, QAgent(th))
     \/ GetTaskLocked(th)
  /\ UNCHANGED avars

NextStarve ==
  \/ AddTaskV
  \/ PutA
  \/ EmitA
  \/ GetEmpty
  \/ GetPop
  \/ GetLocked

\* a started add_task runs to its end, and every worker thread keeps polling
FairStarve ==
  /\ WF_vars(PutA)
  /\ WF_vars(EmitA)
  /\ \A th \in Threads : WF_vars(Poll(th))

SpecStarve == Init /\ [][NextStarve]_vars /\ FairStarve

\* ---- the queue with every status-changing call and external cancellation
\* Task.update_status(CANCELLED), called on the Task object by its holder
cancel(o) ==
  /\ tasks' = [tasks EXCEPT ![o] = update_status(@, CANCELLED, None, None, None)]
  /\ signals' = update_status_emit(o, CANCELLED)
  /\ UNCHANGED <<all_tasks, queue, addPc, addTask, getPc, getAgent, getItem, popStatus, getRet, rets, enq, requeued>>

Cancel == \E o \in DOMAIN tasks :
            /\ tasks[o].status \in {PENDING, ASSIGNED, IN_PROGRESS}
            /\ cancel(o)
            /\ UNCHANGED avars

AddTaskC == \E id \in QueueIds :
              AddTaskLocked("p1", id, 1, None, MaxCancelTasks) /\ UNCHANGED avars

NextCancel ==
  \/ AddTaskC
  \/ PutA
  \/ EmitA
  \/ GetEmptyS
  \/ GetPopS
  \/ GetLockedS
  \/ Cancel
  \/ Complete
  \/ Fail
  \/ MarkInProgress

SpecCancel == Init /\ [][NextCancel]_vars

\* ---- one agent, with or without a manager, whose loop body may raise
InitFault ==
  /\ QInit
  /\ AFields
  /\ agent_manager \in {"manager", None}
  /\ status = IDLE
  /\ store = None
  /\ disk_fails = FALSE
  /\ manifest = TRUE
  /\ registered = TRUE
  /\ created = TRUE
  /\ mgrPc = "idle"

AddTaskX == \E id \in QueueIds :
              AddTaskLocked("p1", id, 1, None, MaxFaultTasks) /\ UNCHANGED avars

NextFault ==
  \/ AddTaskX
  \/ PutA
  \/ EmitA
  \/ StartL
  \/ StopL
  \/ Loop
  \/ LoopFault

SpecFault == InitFault /\ [][NextFault]_vars

\* ---- HistoryManager with AgentStore.save_agent_history as its save callback
MessageTypes == {"human", "ai", "tool"}
Contents == {"a", "b"}

\* AgentManager.__init__ builds the HistoryManager without max_history_length
max_history_length == None

\* AgentStore.save_agent_history: the file is opened with 'w' and rewritten
save_agent_history(history_entries) ==
  history_file' = IF disk_fails THEN history_file ELSE history_entries

\* AgentStore.append_history_entry: one line is added to the file
append_history_entry(history_entry) ==
  history_file' = IF disk_fails THEN history_file ELSE Append(history_file, history_entry)

\* HistoryManager.add_message: append, trim, then the save callback with
\* list(history)
add_message(type, content) ==
  IF type \notin {"human", "ai", "system"}
  THEN UNCHANGED hvars
  ELSE LET appended == Append(histories, [type |-> type, content |-> content])
           history == IF max_history_length # None /\ Len(appended) > max_history_length
                      THEN Tail(appended) ELSE appended
       IN /\ histories' = history
          /\ save_agent_history(history)

\* HistoryManager.load_history: the deque is cleared and refilled from
\* history_data (the most recent max_history_length entries of it)
load_history(history_data) ==
  histories' = IF max_history_length # None /\ Len(history_data) > max_history_length
               THEN SubSeq(history_data, Len(history_data) - max_history_length + 1, Len(history_data))
               ELSE history_data

\* one agent with its history; the agent and the queue stay as constructed
AddMessage ==
  /\ Len(histories) < MaxHistory
  /\ \E type \in MessageTypes, content \in Contents : add_message(type, content)
  /\ UNCHANGED <<qvars, fvars, disk_fails, manifest, registered, created, mgrPc>>

AppendEntry ==
  /\ Len(history_file) < MaxHistory
  /\ \E type \in MessageTypes, content \in Contents :
       append_history_entry([type |-> type, content |-> content])
  /\ UNCHANGED <<qvars, fvars, disk_fails, manifest, registered, created, mgrPc, histories>>

\* AgentInstance.__init__, line 73 (create_agent, from_state): load_history
\* is called with the agent id only
Recreate ==
  /\ load_history(<<>>)
  /\ UNCHANGED <<qvars, fvars, disk_fails, manifest, registered, created, mgrPc, history_file>>

\* the process is started again: AgentManager.__init__ builds a new
\* HistoryManager, whose histories dict is empty; the files stay
Restart ==
  /\ histories' = <<>>
  /\ disk_fails' = FALSE
  /\ UNCHANGED <<qvars, fvars, manifest, registered, created, mgrPc, history_file>>

DiskFaultH ==
  /\ disk_fails' = ~disk_fails
  /\ UNCHANGED <<qvars, fvars, manifest, registered, created, mgrPc, hvars>>

NextHistory ==
  \/ AddMessage
  \/ AppendEntry
  \/ Recreate
  \/ Restart
  \/ DiskFaultH

SpecHistory == Init /\ [][NextHistory]_vars

\* ======================================================== properties
\* positions of Task object o in the heap array / in the return history
QueuePos(q, o) == {i \in DOMAIN q : q[i][2] = o}
RetPos(o) == {i \in DOMAIN rets : rets[i].task = o}
EnqPos(o) == {i \in DOMAIN enq : enq[i] = o}
\* thread th pops an item in this step / leaves get_task's critical section
Pops(th) == getPc[th] = "idle" /\ getPc'[th] = "locked"
Returns(th) == getPc[th] = "locked" /\ getPc'[th] = "idle"
\* task object o may be claimed by agent a
Eligible(o, a) ==
  /\ tasks[o].status = PENDING
  /\ tasks[o].target_agent_id \in {None, a}

\* C1: for every task id, get_task returns a task with that id at most once,
\* over all consumer threads and all interleavings (re-queued tasks included).
C1_UniqueClaim ==
  \A id \in TaskIds :
    Cardinality({i \in DOMAIN rets : tasks[rets[i].task].task_id = id}) <= 1

\* a task that a non-matching worker popped and put back was later returned,
\* and a second task was returned as well
C1_Witness ==
  /\ Len(rets) >= 2
  /\ \E i \in DOMAIN rets : rets[i].task \in requeued

\* C2: a get_task call by agent V that popped a task targeted at another
\* worker returns None and leaves that task Pending, unassigned and queued
\* once at its original priority; no returned task is targeted elsewhere.
C2_TargetedRouting ==
  [][\A th \in Threads :
       /\ (Returns(th) /\ tasks[getItem[th][2]].target_agent_id \notin {None, getAgent[th]})
            => LET o == getItem[th][2]
               IN /\ getRet'[th] = 0
                  /\ rets' = rets
                  /\ tasks'[o].status = PENDING
                  /\ tasks'[o].assigned_agent_id = None
                  /\ Cardinality(QueuePos(queue', o)) = 1
                  /\ \A i \in QueuePos(queue', o) : queue'[i][1] = tasks[o].priority
       /\ \A i \in DOMAIN rets' :
            tasks'[rets'[i].task].target_agent_id \in {None, rets'[i].agent}
    ]_vars

\* a task targeted at w2 was popped by w1 and is back on the queue, Pending
C2_Witness ==
  \E o \in requeued :
    /\ tasks[o].target_agent_id = "w2"
    /\ tasks[o].status = PENDING
    /\ QueuePos(queue, o) # {}
    /\ Len(queue) >= 2

\* C3 (as claimed): a get_task call for agent W returns None only when no
\* task eligible for W is on the queue or in the hands of this call.
C3_ReturnsEligible ==
  [][\A th \in Threads :
       (Returns(th) /\ getRet'[th] = 0)
         => /\ ~Eligible(getItem[th][2], getAgent[th])
            /\ \A i \in DOMAIN queue : ~Eligible(queue[i][2], getAgent[th])
    ]_vars

\* C4: the item get_task pops has the least priority value of all queued
\* items, and a call that returns a task returns the task it popped.
C4_PriorityOrder ==
  [][\A th \in Threads :
       /\ Pops(th) => \A i \in DOMAIN queue : getItem'[th][1] <= queue[i][1]
       /\ (Returns(th) /\ getRet'[th] # 0) => getRet'[th] = getItem[th][2]
    ]_vars

\* B (priority 5) was put before A (priority 1), both untargeted; A has been
\* returned by the first successful get_task while B is still queued
C4_Witness ==
  /\ Len(enq) >= 2
  /\ Len(rets) = 1
  /\ tasks[enq[1]].priority = 5 /\ tasks[enq[1]].target_agent_id = None
  /\ tasks[enq[2]].priority = 1 /\ tasks[enq[2]].target_agent_id = None
  /\ rets[1].task = enq[2]
  /\ QueuePos(queue, enq[1]) # {}

\* C5 (as claimed): of two untargeted tasks with equal priority, the one put
\* first is returned first.
C5_Fifo ==
  \A i, j \in DOMAIN enq :
    (/\ i < j
     /\ tasks[enq[i]].priority = tasks[enq[j]].priority
     /\ tasks[enq[i]].target_agent_id = None
     /\ tasks[enq[j]].target_agent_id = None
     /\ requeued = {}
     /\ RetPos(enq[j]) # {})
      => \E a \in RetPos(enq[i]) : \A b \in RetPos(enq[j]) : a < b

\* C6 (as claimed): complete_task / fail_task on a task that is neither
\* Assigned nor InProgress changes nothing of the task.
C6_TerminalRejected ==
  [][(Complete \/ Fail)
       => \A o \in DOMAIN tasks :
            tasks[o].status \notin {ASSIGNED, IN_PROGRESS} => tasks'[o] = tasks[o]
    ]_vars

C8_AssignedIffStatus ==
  \A o \in DOMAIN tasks :
    (tasks[o].assigned_agent_id # None)
      <=> (tasks[o].status \in {ASSIGNED, IN_PROGRESS, COMPLETED, FAILED})

\* C9 (as claimed): the agent is never Stopped while a task it has claimed is
\* still Assigned or InProgress.
C9_NoAbandonedTask ==
  status = STOPPED
    => \A o \in DOMAIN tasks :
         tasks[o].assigned_agent_id = SelfId
           => tasks[o].status \notin {ASSIGNED, IN_PROGRESS}

\* C10 (as claimed): at most one live loop thread belongs to the agent.
C10_OneLiveThread ==
  Cardinality({th \in Threads : is_alive(th)}) <= 1

\* C11: start() is accepted (goes on to set STARTING) exactly when the
\* status is IDLE, STOPPED, FAILED, ERROR or INITIALIZING; the thread check
\* of line 174 has already found no live loop when the status is examined.
C11_StartAccepted ==
  [][\A c \in Callers :
       (callPc[c] = "s177" /\ callPc'[c] # "s177")
         => ((callPc'[c] = "s185")
               <=> status \in {IDLE, STOPPED, AGENT_FAILED, ERROR, INITIALIZING})]_vars

\* C12: when the executor raises for a task, that task becomes FAILED with
\* the error message attached and the agent's status is not touched by it;
\* the loop then sets the status to IDLE (not FAILED or ERROR) and goes back
\* to its loop test, where a later task can be claimed.
C12_TaskFailureLocal ==
  [][\A th \in Threads :
       /\ \A e \in Errors :
            RunExecuteRaises(th, e)
              => /\ tasks'[thrTask[th]].status = FAILED
                 /\ tasks'[thrTask[th]].error_message = e
                 /\ status' = status
                 /\ thrPc'[th] = "r314"
       /\ (thrPc[th] = "r314" /\ thrPc'[th] # "r314")
            => (status' = IDLE /\ thrPc'[th] = "r315")
       /\ (thrPc[th] = "r315" /\ thrPc'[th] # "r315")
            => (status' \notin {AGENT_FAILED, ERROR} /\ thrPc'[th] = "r257")
    ]_vars

\* a task has failed with its message, and the same loop has afterwards
\* claimed and completed another task and is idle again
C12_Witness ==
  /\ status = IDLE
  /\ \E th \in Threads : thrPc[th] = "r257"
  /\ \E i, j \in DOMAIN tasks :
       /\ tasks[i].status = FAILED
       /\ tasks[i].error_message = "boom"
       /\ tasks[j].status = COMPLETED
       /\ tasks[j].assigned_agent_id = SelfId
       /\ \E a \in RetPos(i), b \in RetPos(j) : a < b

\* C13: when the executor returns r for the task the loop has claimed, the
\* task becomes COMPLETED with result r and stays assigned to this agent;
\* the loop then sets the status to IDLE and clears _current_task_id (the
\* status is still IDLE then unless a stop() call has started meanwhile).
C13_TaskCompleted ==
  [][\A th \in Threads :
       /\ \A r \in Results :
            RunExecuteReturns(th, r)
              => /\ tasks'[thrTask[th]].status = COMPLETED
                 /\ tasks'[thrTask[th]].result = r
                 /\ tasks'[thrTask[th]].assigned_agent_id = SelfId
       /\ (thrPc[th] = "r314" /\ thrPc'[th] # "r314") => status' = IDLE
       /\ (thrPc[th] = "r315" /\ thrPc'[th] # "r315")
            => /\ current_task_id' = None
               /\ (~stop_event /\ \A c \in Callers : callPc[c] = "idle") => status' = IDLE
    ]_vars

\* the loop has completed a task with the executor's result and is back at
\* its loop test, idle, with no current task and no stop requested
C13_Witness ==
  /\ status = IDLE
  /\ ~stop_event
  /\ current_task_id = None
  /\ \E th \in Threads : thrPc[th] = "r257" /\ thrTask[th] = 0
  /\ \E o \in DOMAIN tasks :
       /\ tasks[o].status = COMPLETED
       /\ tasks[o].result = "ok"
       /\ tasks[o].assigned_agent_id = SelfId

C15_LoadCoercesToIdle ==
  [][(mgrPc = "init" /\ created')
       => /\ store \in {"running", "starting", "THINKING"} => status' = IDLE
          /\ status' \notin {RUNNING, STARTING, THINKING}
    ]_vars

\* C16 (as claimed): an agent whose status is RUNNING, THINKING or STARTING
\* has a live loop thread, or a start() in progress that is about to launch
\* one.
C16_ActiveHasLoop ==
  status \in {RUNNING, THINKING, STARTING}
    => \/ \E th \in Threads : is_alive(th)
       \/ callPc["c1"] \in {"i352", "i353", "i355"}

\* C17 (as claimed): once the stop signal is raised while a loop thread is
\* alive, it stays raised as long as a loop thread is alive.
C17_SignalStaysRaised ==
  [][(stop_event /\ \E th \in Threads : is_alive(th)) => stop_event']_vars

\* C18 (as claimed): once remove_agent has returned, the agent is not in the
\* registry, its loop thread has ended, and no state file or manifest entry
\* for it exists, in that state and in every later one.
C18_RemovedStaysRemoved ==
  (created /\ ~registered /\ mgrPc = "idle")
    => /\ \A th \in Threads : ~is_alive(th)
       /\ store = None
       /\ ~manifest

\* C19 (as claimed): when shutdown returns, a registered agent has no live
\* loop thread and its status is STOPPED or ERROR.
C19_ShutdownStopsAll ==
  [][(mgrPc = "s330" /\ mgrPc' = "idle" /\ registered)
       => /\ \A th \in Threads : ~is_alive(th)
          /\ status' \in {STOPPED, ERROR}
    ]_vars

\* C20: while every write of the state file fails, the loop and the callers
\* go on as with a working store: each status assignment that triggers a save
\* takes effect (STARTING in start, STOPPING in stop, RUNNING, THINKING and
\* IDLE in the loop), no step sets the status to FAILED or ERROR, the loop
\* leaves its while loop only when the stop signal is set, a claimed task is
\* still executed and finished, and the loop returns to its loop test.
C20_SaveFailureHarmless ==
  [][disk_fails =>
       /\ status' \notin {AGENT_FAILED, ERROR}
       /\ \A c \in Callers :
            /\ (callPc[c] = "s185" /\ callPc'[c] # "s185") => status' = STARTING
            /\ (callPc[c] = "p208" /\ callPc'[c] # "p208") => status' = STOPPING
       /\ \A th \in Threads :
            /\ (thrPc[th] = "r255" /\ thrPc'[th] # "r255") => status' = IDLE
            /\ (thrPc[th] = "r267" /\ thrPc'[th] # "r267")
                 => (status' = RUNNING /\ thrPc'[th] = "r268")
            /\ (thrPc[th] = "r284" /\ thrPc'[th] # "r284")
                 => (status' = THINKING /\ thrPc'[th] = "r288")
            /\ (thrPc[th] = "r288" /\ thrPc'[th] # "r288")
                 => /\ tasks'[thrTask[th]].status \in {COMPLETED, FAILED}
                    /\ thrPc'[th] = "r314"
            /\ (thrPc[th] = "r314" /\ thrPc'[th] # "r314")
                 => (status' = IDLE /\ thrPc'[th] = "r315")
            /\ (thrPc[th] = "r315" /\ thrPc'[th] # "r315") => thrPc'[th] = "r257"
            /\ (thrPc[th] # "w242" /\ thrPc'[th] = "w242") => stop_event
    ]_vars

\* no write of the state file has succeeded, and the loop has nevertheless
\* completed one task, claimed a later one and is executing it
C20_Witness ==
  /\ disk_fails
  /\ store = None
  /\ status = THINKING
  /\ \E th \in Threads : thrPc[th] = "r288" /\ thrTask[th] # 0
  /\ \E i \in DOMAIN tasks : tasks[i].status = COMPLETED

\* sequence a is a prefix of sequence b
IsPrefix(a, b) == Len(a) <= Len(b) /\ SubSeq(b, 1, Len(a)) = a

\* C21: the persisted history only grows at its end: in every step the
\* history file before the step is a prefix of the history file after it.
C21_HistoryAppendOnly == [][IsPrefix(history_file, history_file')]_vars

\* C22: in every state, _current_task_id is set exactly when the agent's
\* status is RUNNING or THINKING.
C22_TaskIdIffBusy ==
  (current_task_id # None) <=> (status \in {RUNNING, THINKING})

\* C23: when the call that fetches a task raises inside the execution loop,
\* the status becomes ERROR and the loop is left: the thread goes on to the
\* loop-exit code and the stop callback, not back to the loop test.
C23_LoopFaultExits ==
  [][\A th \in Threads :
       (thrPc[th] = "a313" /\ thrPc'[th] # "a313")
         => (status' = ERROR /\ thrPc'[th] \in {"a335", "a299"})
    ]_vars

\* C24: a status of FAILED or ERROR, once set by the loop, is not replaced by
\* STOPPED or IDLE: not by the code that runs when the loop ends and not by
\* a stop() call, whether the thread is alive or dead.
C24_FaultStatusKept ==
  [][(status \in {AGENT_FAILED, ERROR}) => (status' \notin {STOPPED, IDLE})
    ]_vars

\* C25: once a task is assigned to an agent, no later call changes its
\* assigned_agent_id to another agent.
C25_SingleWriter ==
  [][\A i \in DOMAIN tasks :
       tasks[i].assigned_agent_id # None
         => tasks'[i].assigned_agent_id = tasks[i].assigned_agent_id
    ]_vars

\* C26: while the stop signal is set, the status is STOPPING and a loop
\* thread is alive, no step sets the status to IDLE, RUNNING or THINKING.
C26_NoIdleWhileStopping ==
  [][(stop_event /\ status = STOPPING /\ \E th \in Threads : is_alive(th))
       => (status' \notin {IDLE, RUNNING, THINKING})
    ]_vars

\* C27: update_task_progress changes a task only when it is ASSIGNED, and
\* then that task becomes IN_PROGRESS and no other task changes; for a task
\* in any other status, or an id that is not registered, no task changes.
\* The queue and the index are never changed.
C27_MarkInProgressFrame ==
  [][\A id \in QueueIds, a \in Workers \cup {None} :
       update_task_progress(id, a)
         => /\ LET o == all_tasks[id]
               IN IF o # 0 /\ tasks[o].status = ASSIGNED
                  THEN /\ tasks'[o].status = IN_PROGRESS
                       /\ \A j \in DOMAIN tasks : j # o => tasks'[j] = tasks[j]
                  ELSE tasks' = tasks
            /\ queue' = queue
            /\ all_tasks' = all_tasks
    ]_vars

\* one task has been marked IN_PROGRESS by its agent while another task is
\* CANCELLED
C27_Witness ==
  /\ \E o \in DOMAIN tasks :
       tasks[o].status = IN_PROGRESS /\ tasks[o].assigned_agent_id \in Workers
  /\ \E j \in DOMAIN tasks : tasks[j].status = CANCELLED

\* C28: a get_task call that popped a task whose status was CANCELLED at
\* the pop returns None, leaves that task CANCELLED and unassigned, and does
\* not put the item back on the queue.
C28_CancelledDiscarded ==
  [][\A th \in Threads :
       (Returns(th) /\ popStatus[th] = CANCELLED)
         => LET o == getItem[th][2]
            IN /\ getRet'[th] = 0
               /\ rets' = rets
               /\ tasks'[o].status = CANCELLED
               /\ tasks'[o].assigned_agent_id = tasks[o].assigned_agent_id
               /\ queue' = queue
    ]_vars

\* C29: an assign_task call returns True (it reaches line 306, not the
\* handler's return False at line 309) and has put one more item on the queue.
C29_AssignedTaskQueued ==
  [][(mgrPc = "idle" /\ mgrPc' \in {"t306", "t309"})
       => (mgrPc' = "t306" /\ Len(queue') = Len(queue) + 1)
    ]_vars

\* C30: a task whose status is COMPLETED or FAILED is never changed to
\* ASSIGNED, whether it was finished after its assignment or while it was
\* still in the queue.
C30_TerminalNeverAssigned ==
  [][\A o \in DOMAIN tasks :
       tasks[o].status \in {COMPLETED, FAILED} => tasks'[o].status # ASSIGNED
    ]_vars

\* Number of (priority, task) tuples of the heap array that hold Task object o
InQueue(o) == Cardinality({i \in 1..Len(queue) : queue[i][2] = o})

\* Number of add_task calls that have registered Task object o and not yet put it
HeldByAdd(o) == Cardinality({p \in Producers : addPc[p] = "put" /\ addTask[p] = o})

\* Number of get_task calls that have popped Task object o and not yet returned
HeldByGet(o) == Cardinality({th \in Threads : getPc[th] = "locked" /\ getItem[th][2] = o})

\* C31: every PENDING task of _all_tasks is, in every reachable state, either
\* exactly once on the PriorityQueue, or held by exactly one add_task call that
\* is about to put it or one get_task call that is about to re-queue or assign
\* it, and never both.
C31_NoPendingLost ==
  \A id \in TaskIds :
    (all_tasks[id] # 0 /\ tasks[all_tasks[id]].status = PENDING)
      => InQueue(all_tasks[id]) + HeldByAdd(all_tasks[id]) + HeldByGet(all_tasks[id]) = 1

\* A targeted task that a get_task of another agent put back is on the queue
\* again while a second PENDING task is held by a get_task call in progress
C31_Witness ==
  \E o \in requeued, th \in Threads :
    /\ tasks[o].status = PENDING
    /\ InQueue(o) = 1
    /\ getPc[th] = "locked"
    /\ getItem[th][2] # o
    /\ tasks[getItem[th][2]].status = PENDING


\* C32: for every Task object, task_created is the first notification emitted
\* for it: no task_status_updated is emitted for a task before its
\* task_created, whatever the interleaving of add_task with get_task calls.
C32_CreatedFirst ==
  \A o \in DOMAIN signals :
    signals[o] # <<>> => signals[o][1] = "task_created"

\* Task object o is an untargeted PENDING task on the queue while Task object
\* b, targeted at the agent that never polls and of strictly higher priority
\* (a smaller number), is on the queue or held by a get_task call
BehindTargeted(o, b) ==
  IF o \in DOMAIN tasks /\ b \in DOMAIN tasks
  THEN /\ tasks[o].status = PENDING
       /\ tasks[o].target_agent_id = None
       /\ InQueue(o) = 1
       /\ tasks[b].target_agent_id = NeverPolls
       /\ tasks[b].priority < tasks[o].priority
       /\ InQueue(b) + HeldByGet(b) = 1
  ELSE FALSE

\* Task object o has been claimed: it is no longer PENDING
Claimed(o) == IF o \in DOMAIN tasks THEN tasks[o].status # PENDING ELSE FALSE

\* C33: with every worker thread polling get_task forever under weak
\* fairness, an untargeted PENDING task on the queue is eventually claimed,
\* also while the queue holds a task of strictly higher priority targeted at
\* an agent that never polls.
C33_UntargetedEventuallyClaimed ==
  \A o \in 1..MaxStarveTasks, b \in 1..MaxStarveTasks :
    BehindTargeted(o, b) ~> Claimed(o)

\* C34: with a working disk, whenever no set_status or save_state is in
\* progress on any thread, the status in the agent's state file is the
\* agent's in-memory status.
C34_SnapshotAgrees ==
  (~disk_fails /\ \A x \in Setters : setPc[x] = "idle")
    => store = StatusName(status)

====
